---- MODULE Spec2Model ----
(***************************************************************************)
(* A model of the gb-rs DMG emulator core: the CPU step, the memory bus    *)
(* with its interrupt registers, the GPU scanline state machine, the timer *)
(* and the register file.  Every operator is translated from the Rust      *)
(* source under src/src; a Rust panic (unwrap, expect, todo!) is modelled  *)
(* as the emulation thread ending: status = "panicked".                    *)
(***************************************************************************)
EXTENDS Integers, Sequences, FiniteSets, TLC

VARIABLES
    cpu,      \* the Cpu struct: registers, pc, sp, interrupts_enabled, bus
    status,   \* "running", or "panicked" once a Rust panic ended the thread
    cycles,   \* the value returned by the last Cpu::step (0 before any step)
    steps,    \* number of Cpu::step calls made by the emulation loop
    instr,    \* the instruction decoded by the last Cpu::step
    call,     \* last direct call of a bus / register operation and its result
    threads   \* the framebuffer shared by the two threads of main, its lock,
              \* and where each thread is

vars == <<cpu, status, cycles, steps, instr, call, threads>>

----------------------------------------------------------------------------
(* Bit arithmetic on bytes and words.                                      *)

Pow2(n) == 2 ^ n

Bit(v, i) == (v \div Pow2(i)) % 2

\* bitwise and of two bytes
And8(x, y) ==
    Bit(x, 0) * Bit(y, 0) + 2 * Bit(x, 1) * Bit(y, 1)
    + 4 * Bit(x, 2) * Bit(y, 2) + 8 * Bit(x, 3) * Bit(y, 3)
    + 16 * Bit(x, 4) * Bit(y, 4) + 32 * Bit(x, 5) * Bit(y, 5)
    + 64 * Bit(x, 6) * Bit(y, 6) + 128 * Bit(x, 7) * Bit(y, 7)

\* v with bit i cleared
ClearBit(v, i) == v - Bit(v, i) * Pow2(i)

\* v with bit i set
SetBit(v, i) == v + (1 - Bit(v, i)) * Pow2(i)

Wrap8(v) == v % 256

Wrap16(v) == v % 65536

\* u16::from_le_bytes([lo, hi])
FromLeBytes(lo, hi) == hi * 256 + lo

\* value.to_le_bytes() as a record
ToLeBytes(v) == [lo |-> v % 256, hi |-> v \div 256]

\* the element of a one-element set: Only({e(x) : x \in {v}}) is e(v), with
\* v evaluated once
Only(S) == CHOOSE x \in S : TRUE

----------------------------------------------------------------------------
(* Registers (src/src/cpu/registers.rs).                                   *)

ZERO_FLAG == 128
SUBTRACTION_FLAG == 64
HALF_CARRY_FLAG == 32
CARRY_FLAG == 16

\* Flags::from_bits(f): Ok only when f has no bit outside the four flags
FlagsFromBitsOk(f) == f % 16 = 0

\* Registers::default()
DefaultRegisters ==
    [a |-> 0, b |-> 0, c |-> 0, d |-> 0, e |-> 0, h |-> 0, l |-> 0, f |-> 0]

\* the register file Cpu::new builds when no boot ROM is given
PostBootRegisters ==
    [a |-> 1, b |-> 0, c |-> 19, d |-> 0, e |-> 216, h |-> 1, l |-> 77,
     f |-> CARRY_FLAG + HALF_CARRY_FLAG + ZERO_FLAG]

bc(r) == FromLeBytes(r.c, r.b)
de(r) == FromLeBytes(r.e, r.d)
hl(r) == FromLeBytes(r.l, r.h)
af(r) == FromLeBytes(r.f, r.a)

set_bc(r, v) == [r EXCEPT !.b = ToLeBytes(v).hi, !.c = ToLeBytes(v).lo]
set_de(r, v) == [r EXCEPT !.d = ToLeBytes(v).hi, !.e = ToLeBytes(v).lo]
set_hl(r, v) == [r EXCEPT !.h = ToLeBytes(v).hi, !.l = ToLeBytes(v).lo]

\* set_af assigns a, then unwraps Flags::from_bits(f): a low byte with any of
\* bits 0-3 set panics after a has been written and before f is.
set_af(r, v) ==
    IF FlagsFromBitsOk(ToLeBytes(v).lo)
    THEN [regs |-> [r EXCEPT !.a = ToLeBytes(v).hi, !.f = ToLeBytes(v).lo],
          panic |-> FALSE]
    ELSE [regs |-> [r EXCEPT !.a = ToLeBytes(v).hi], panic |-> TRUE]

----------------------------------------------------------------------------
(* GPU scanline state machine (src/src/gpu.rs).                            *)

\* value of gpu.rendered when the last Gpu::step did not call render_line
NoLine == -1

\* LCDControl::DisplayEnabled = 1 << 7
DisplayEnabled(lcd_control) == Bit(lcd_control, 7) = 1

\* Gpu::default(); rendered records the row render_line wrote in the last step
DefaultGpu ==
    [cycles |-> 0, line |-> 0, mode |-> "HBlank", lcd_control |-> 0,
     background_colours |-> 0, scroll_y |-> 0, scroll_x |-> 0,
     tile_set |-> <<>>, rendered |-> NoLine]

\* from_bytes_row: the 16 bits of the two bytes, most significant bit first
FromBytesRow(first, second) ==
    [tiles |-> [i \in 0..15 |->
                   IF i < 8 THEN Bit(first, 7 - i) ELSE Bit(second, 15 - i)]]

\* a row of empty_tile()
EmptyRow == [tiles |-> [i \in 0..15 |-> 0]]

\* TileRow::get_tile: the colour index of pixel tile of the row
GetTile(row, tile) == 2 * row.tiles[tile + 8] + row.tiles[tile]

\* tile_set[tile_index][row_index]; tile_set holds the rows written so far,
\* every other row is still the row of empty_tile()
TileSetRow(tile_set, tile_index, row_index) ==
    IF <<tile_index, row_index>> \in DOMAIN tile_set
    THEN tile_set[<<tile_index, row_index>>]
    ELSE EmptyRow

GpuStepResetsCycles(g, c) ==
    IF ~DisplayEnabled(g.lcd_control) THEN [g EXCEPT !.rendered = NoLine]
    ELSE LET cyc == Wrap16(g.cycles + c) IN
      CASE g.mode = "OamScan" ->
             IF cyc >= 80
             THEN [g EXCEPT !.cycles = 0, !.mode = "Drawing",
                            !.rendered = NoLine]
             ELSE [g EXCEPT !.cycles = cyc, !.rendered = NoLine]
        [] g.mode = "Drawing" ->
             IF cyc >= 172
             THEN [g EXCEPT !.cycles = 0, !.mode = "HBlank",
                            !.rendered = g.line]
             ELSE [g EXCEPT !.cycles = cyc, !.rendered = NoLine]
        [] g.mode = "HBlank" ->
             IF cyc >= 204
             THEN [g EXCEPT !.cycles = 0, !.line = g.line + 1,
                            !.mode = IF g.line + 1 >= 144 THEN "VBlank"
                                     ELSE "OamScan",
                            !.rendered = NoLine]
             ELSE [g EXCEPT !.cycles = cyc, !.rendered = NoLine]
        [] g.mode = "VBlank" ->
             IF cyc >= 456
             THEN [g EXCEPT !.cycles = 0,
                            !.line = IF g.line + 1 >= 154 THEN 0
                                     ELSE g.line + 1,
                            !.mode = IF g.line + 1 >= 154 THEN "OamScan"
                                     ELSE "VBlank",
                            !.rendered = NoLine]
             ELSE [g EXCEPT !.cycles = cyc, !.rendered = NoLine]

GpuStepShortVBlank(g, c) ==
    IF ~DisplayEnabled(g.lcd_control) THEN [g EXCEPT !.rendered = NoLine]
    ELSE LET cyc == Wrap16(g.cycles + c) IN
      CASE g.mode = "OamScan" ->
             IF cyc >= 80
             THEN [g EXCEPT !.cycles = cyc % 80, !.mode = "Drawing",
                            !.rendered = NoLine]
             ELSE [g EXCEPT !.cycles = cyc, !.rendered = NoLine]
        [] g.mode = "Drawing" ->
             IF cyc >= 172
             THEN [g EXCEPT !.cycles = cyc % 172, !.mode = "HBlank",
                            !.rendered = g.line]
             ELSE [g EXCEPT !.cycles = cyc, !.rendered = NoLine]
        [] g.mode = "HBlank" ->
             IF cyc >= 204
             THEN [g EXCEPT !.cycles = cyc % 204, !.line = g.line + 1,
                            !.mode = IF g.line + 1 >= 144 THEN "VBlank"
                                     ELSE "OamScan",
                            !.rendered = NoLine]
             ELSE [g EXCEPT !.cycles = cyc, !.rendered = NoLine]
        [] g.mode = "VBlank" ->
             IF cyc >= 456
             THEN [g EXCEPT !.cycles = cyc % 456,
                            !.line = IF g.line + 1 >= 153 THEN 0
                                     ELSE g.line + 1,
                            !.mode = IF g.line + 1 >= 153 THEN "OamScan"
                                     ELSE "VBlank",
                            !.rendered = NoLine]
             ELSE [g EXCEPT !.cycles = cyc, !.rendered = NoLine]

GpuStepHoldsLine(g, c) ==
    IF ~DisplayEnabled(g.lcd_control) THEN [g EXCEPT !.rendered = NoLine]
    ELSE LET cyc == Wrap16(g.cycles + c) IN
      CASE g.mode = "OamScan" ->
             IF cyc >= 80
             THEN [g EXCEPT !.cycles = cyc % 80, !.mode = "Drawing",
                            !.rendered = NoLine]
             ELSE [g EXCEPT !.cycles = cyc, !.rendered = NoLine]
        [] g.mode = "Drawing" ->
             IF cyc >= 172
             THEN [g EXCEPT !.cycles = cyc % 172, !.mode = "HBlank",
                            !.rendered = g.line]
             ELSE [g EXCEPT !.cycles = cyc, !.rendered = NoLine]
        [] g.mode = "HBlank" ->
             IF cyc >= 204
             THEN [g EXCEPT !.cycles = cyc % 204, !.mode = "OamScan",
                            !.rendered = NoLine]
             ELSE [g EXCEPT !.cycles = cyc, !.rendered = NoLine]
        [] g.mode = "VBlank" ->
             IF cyc >= 456
             THEN [g EXCEPT !.cycles = cyc % 456,
                            !.line = IF g.line + 1 >= 154 THEN 0
                                     ELSE g.line + 1,
                            !.mode = IF g.line + 1 >= 154 THEN "OamScan"
                                     ELSE "VBlank",
                            !.rendered = NoLine]
             ELSE [g EXCEPT !.cycles = cyc, !.rendered = NoLine]

GpuStepLateVBlank(g, c) ==
    IF ~DisplayEnabled(g.lcd_control) THEN [g EXCEPT !.rendered = NoLine]
    ELSE LET cyc == Wrap16(g.cycles + c) IN
      CASE g.mode = "OamScan" ->
             IF cyc >= 80
             THEN [g EXCEPT !.cycles = cyc % 80, !.mode = "Drawing",
                            !.rendered = NoLine]
             ELSE [g EXCEPT !.cycles = cyc, !.rendered = NoLine]
        [] g.mode = "Drawing" ->
             IF cyc >= 172
             THEN [g EXCEPT !.cycles = cyc % 172, !.mode = "HBlank",
                            !.rendered = g.line]
             ELSE [g EXCEPT !.cycles = cyc, !.rendered = NoLine]
        [] g.mode = "HBlank" ->
             IF cyc >= 204
             THEN [g EXCEPT !.cycles = cyc % 204, !.line = g.line + 1,
                            !.mode = IF g.line + 1 > 144 THEN "VBlank"
                                     ELSE "OamScan",
                            !.rendered = NoLine]
             ELSE [g EXCEPT !.cycles = cyc, !.rendered = NoLine]
        [] g.mode = "VBlank" ->
             IF cyc >= 456
             THEN [g EXCEPT !.cycles = cyc % 456,
                            !.line = IF g.line + 1 >= 154 THEN 0
                                     ELSE g.line + 1,
                            !.mode = IF g.line + 1 >= 154 THEN "OamScan"
                                     ELSE "VBlank",
                            !.rendered = NoLine]
             ELSE [g EXCEPT !.cycles = cyc, !.rendered = NoLine]

\* Gpu::step(cycles)
GpuStep(g, c) ==
    IF ~DisplayEnabled(g.lcd_control) THEN [g EXCEPT !.rendered = NoLine]
    ELSE LET cyc == Wrap16(g.cycles + c) IN
      CASE g.mode = "OamScan" ->
             IF cyc >= 80
             THEN [g EXCEPT !.cycles = cyc % 80, !.mode = "Drawing",
                            !.rendered = NoLine]
             ELSE [g EXCEPT !.cycles = cyc, !.rendered = NoLine]
        [] g.mode = "Drawing" ->
             IF cyc >= 172
             THEN [g EXCEPT !.cycles = cyc % 172, !.mode = "HBlank",
                            !.rendered = g.line]
             ELSE [g EXCEPT !.cycles = cyc, !.rendered = NoLine]
        [] g.mode = "HBlank" ->
             IF cyc >= 204
             THEN [g EXCEPT !.cycles = cyc % 204, !.line = g.line + 1,
                            !.mode = IF g.line + 1 >= 144 THEN "VBlank"
                                     ELSE "OamScan",
                            !.rendered = NoLine]
             ELSE [g EXCEPT !.cycles = cyc, !.rendered = NoLine]
        [] g.mode = "VBlank" ->
             IF cyc >= 456
             THEN [g EXCEPT !.cycles = cyc % 456,
                            !.line = IF g.line + 1 >= 154 THEN 0
                                     ELSE g.line + 1,
                            !.mode = IF g.line + 1 >= 154 THEN "OamScan"
                                     ELSE "VBlank",
                            !.rendered = NoLine]
             ELSE [g EXCEPT !.cycles = cyc, !.rendered = NoLine]

----------------------------------------------------------------------------
(* Timer (src/src/timer.rs).                                               *)

\* Timer::default()
DefaultTimer ==
    [control |-> 0, divider |-> 0, counter |-> 0, modulo |-> 0,
     divider_counter |-> 0, counter_counter |-> 0]

\* Timer::is_enabled
TimerIsEnabled(t) == Bit(t.control, 2) = 1

\* Timer::cycle_speed, in M-states
CycleSpeed(t) ==
    CASE t.control % 4 = 0 -> 256
      [] t.control % 4 = 1 -> 4
      [] t.control % 4 = 2 -> 16
      [] t.control % 4 = 3 -> 64

\* Timer::increment_div: (divider, divider_counter)
IncrementDiv(t, c) ==
    LET sum == t.divider_counter + c
        overflow == sum > 255
    IN [divider |-> IF overflow THEN Wrap8(t.divider + 1) ELSE 0,
        counter |-> Wrap8(sum)]

RECURSIVE TimaLoopWrapsToZero(_, _, _, _)
TimaLoopWrapsToZero(counter, modulo, n, did_overflow) ==
    IF n = 0 THEN [counter |-> counter, did_overflow |-> did_overflow]
    ELSE IF counter = 255
         THEN TimaLoopWrapsToZero(0, modulo, n - 1, TRUE)
         ELSE TimaLoopWrapsToZero(counter + 1, modulo, n - 1, did_overflow)

\* the while loop of Timer::step: n increments of TIMA, reloading on overflow
RECURSIVE TimaLoop(_, _, _, _)
TimaLoop(counter, modulo, n, did_overflow) ==
    IF n = 0 THEN [counter |-> counter, did_overflow |-> did_overflow]
    ELSE IF counter = 255
         THEN TimaLoop(modulo, modulo, n - 1, TRUE)
         ELSE TimaLoop(counter + 1, modulo, n - 1, did_overflow)

TimerStepSingleIncrement(t, c) ==
    LET div == IncrementDiv(t, c)
        t1 == [t EXCEPT !.divider = div.divider,
                        !.divider_counter = div.counter]
    IN IF TimerIsEnabled(t1)
       THEN LET target == CycleSpeed(t1) * 4
                cc == t1.counter_counter + c
                loop == TimaLoop(t1.counter, t1.modulo,
                                 IF cc >= target THEN 1 ELSE 0, FALSE)
            IN [timer |-> [t1 EXCEPT !.counter_counter =
                                        IF cc >= target THEN cc - target
                                        ELSE cc,
                                     !.counter = loop.counter],
                did_overflow |-> loop.did_overflow]
       ELSE [timer |-> t1, did_overflow |-> FALSE]

\* Timer::step(cycles): the new timer and the returned did_overflow
TimerStep(t, c) ==
    LET div == IncrementDiv(t, c)
        t1 == [t EXCEPT !.divider = div.divider,
                        !.divider_counter = div.counter]
    IN IF TimerIsEnabled(t1)
       THEN LET target == CycleSpeed(t1) * 4
                cc == t1.counter_counter + c
                loop == TimaLoop(t1.counter, t1.modulo, cc \div target, FALSE)
            IN [timer |-> [t1 EXCEPT !.counter_counter = cc % target,
                                     !.counter = loop.counter],
                did_overflow |-> loop.did_overflow]
       ELSE [timer |-> t1, did_overflow |-> FALSE]

----------------------------------------------------------------------------
(* Joypad (src/src/joypad.rs).                                             *)

\* Joypad::default(): selection nibble 0, no button or direction pressed
DefaultJoypad == [input_select |-> 0, buttons |-> 0, dpad |-> 0]

\* Joypad::write_joypad: only the upper nibble of the value is latched
WriteJoypad(j, value) == [j EXCEPT !.input_select = value \div 16]

\* Joypad::read_joypad: the select field is the low two bits of the nibble;
\* any selection other than Button (01) or Dpad (10) reaches todo!()
ReadJoypad(j) ==
    LET select == j.input_select % 4 IN
    CASE select = 1 ->
           [val |-> j.input_select * 16 + (15 - j.buttons), panic |-> FALSE]
      [] select = 2 ->
           [val |-> j.input_select * 16 + (15 - j.dpad), panic |-> FALSE]
      [] OTHER -> [val |-> 0, panic |-> TRUE]

----------------------------------------------------------------------------
(* Memory bus (src/src/cpu/memorybus.rs).                                  *)

\* the boot_rom field when it is None
NoBootRom == <<>>

\* The byte arrays of the bus and of the GPU (ROM banks, external RAM, WRAM,
\* HRAM, VRAM, OAM) are one sparse map from the address that indexes them to
\* the byte stored; every array starts zeroed, so an absent address reads 0.
MemGet(mem, address) == IF address \in DOMAIN mem THEN mem[address] ELSE 0

MemSet(mem, address, value) ==
    [x \in (DOMAIN mem) \cup {address} |->
        IF x = address THEN value ELSE mem[x]]

\* MemoryBus::new(boot_rom, game_rom, test_mode)
NewBus(boot_rom, game_rom, test_mode) ==
    [boot_rom |-> boot_rom, mem |-> game_rom, gpu |-> DefaultGpu,
     timer |-> DefaultTimer, joypad |-> DefaultJoypad,
     interrupt_flag |-> 0, interrupt_enabled |-> 0, test_mode |-> test_mode,
     overflow_checks |-> FALSE]

\* a plain u16 addition address + k: with overflow checks compiled in (the
\* dev profile) an overflow panics, without them (the release profile) it
\* wraps; bus.overflow_checks records which build is running
AddU16(bus, address, k) ==
    [val |-> Wrap16(address + k),
     panic |-> bus.overflow_checks /\ address + k > 65535]

\* index into wram of an echo-RAM address, as the WRAM address it aliases
EchoToWramOwnStorage(address) == address

EchoToWramFromWramEnd(address) == address - 65023 + 57343

EchoToWram(address) == address - 57344 + 49152

\* Gpu::write_vram: store the byte, then rebuild the tile row it belongs to
WriteVramUnalignedPair(bus, index, value) ==
    Only({ IF index >= 6144 THEN [bus EXCEPT !.mem = mem]
           ELSE [bus EXCEPT
                   !.mem = mem,
                   !.gpu.tile_set =
                       MemSet(bus.gpu.tile_set,
                              <<index \div 16, (index % 16) \div 2>>,
                              FromBytesRow(MemGet(mem, 32768 + index),
                                           MemGet(mem, 32768 + index + 1)))] :
           mem \in {MemSet(bus.mem, 32768 + index, value)} })

WriteVram(bus, index, value) ==
    Only({ IF index >= 6144 THEN [bus EXCEPT !.mem = mem]
           ELSE [bus EXCEPT
                   !.mem = mem,
                   !.gpu.tile_set =
                       MemSet(bus.gpu.tile_set,
                              <<index \div 16, (index % 16) \div 2>>,
                              FromBytesRow(
                                  MemGet(mem, 32768 + index - (index % 2)),
                                  MemGet(mem, 32768 + index - (index % 2)
                                              + 1)))] :
           mem \in {MemSet(bus.mem, 32768 + index, value)} })

\* BitFlags::<InterruptFlag>::from_bits(value): Ok for the five known bits
InterruptFromBitsOk(value) == value < 32

\* MemoryBus::read_io_register
ReadIoRegister(bus, address) ==
    CASE address = 65280 -> ReadJoypad(bus.joypad)
      [] address = 65284 -> [val |-> bus.timer.divider, panic |-> FALSE]
      [] address = 65285 -> [val |-> bus.timer.counter, panic |-> FALSE]
      [] address = 65286 -> [val |-> bus.timer.modulo, panic |-> FALSE]
      [] address = 65287 -> [val |-> bus.timer.control, panic |-> FALSE]
      [] address = 65295 -> [val |-> bus.interrupt_flag, panic |-> FALSE]
      [] address = 65318 -> [val |-> 0, panic |-> FALSE]
      [] address = 65344 -> [val |-> bus.gpu.lcd_control, panic |-> FALSE]
      [] address = 65346 -> [val |-> bus.gpu.scroll_y, panic |-> FALSE]
      [] address = 65347 -> [val |-> bus.gpu.scroll_x, panic |-> FALSE]
      [] address = 65348 ->
           [val |-> IF bus.test_mode THEN 144 ELSE bus.gpu.line,
            panic |-> FALSE]
      [] address = 65357 -> [val |-> 0, panic |-> FALSE]
      [] address = 65535 -> [val |-> bus.interrupt_enabled, panic |-> FALSE]
      [] OTHER -> [val |-> 0, panic |-> TRUE]

\* MemoryBus::read_byte: the value read, or panic when the arm is todo!()
ReadByte(bus, address) ==
    CASE address <= 255 ->
           [val |-> IF bus.boot_rom = NoBootRom THEN MemGet(bus.mem, address)
                    ELSE MemGet(bus.boot_rom, address),
            panic |-> FALSE]
      [] address >= 256 /\ address <= 32767 ->
           [val |-> MemGet(bus.mem, address), panic |-> FALSE]
      [] address >= 40960 /\ address <= 57343 ->
           [val |-> MemGet(bus.mem, address), panic |-> FALSE]
      [] address >= 57344 /\ address <= 65023 ->
           [val |-> MemGet(bus.mem, EchoToWram(address)), panic |-> FALSE]
      [] address >= 65024 /\ address <= 65183 ->
           [val |-> MemGet(bus.mem, address), panic |-> FALSE]
      [] address >= 32768 /\ address <= 40959 ->
           [val |-> MemGet(bus.mem, address), panic |-> FALSE]
      [] (address >= 65280 /\ address <= 65407) \/ address = 65535 ->
           ReadIoRegister(bus, address)
      [] address >= 65408 /\ address <= 65534 ->
           [val |-> MemGet(bus.mem, address), panic |-> FALSE]
      [] OTHER -> [val |-> 0, panic |-> TRUE]

DisableBootRomWhenBit0(bus, value) ==
    IF value % 2 = 1 THEN [bus EXCEPT !.boot_rom = NoBootRom] ELSE bus

\* the 0xFF50 arm of write_io_register: self.boot_rom = None
DisableBootRom(bus, value) == [bus EXCEPT !.boot_rom = NoBootRom]

\* MemoryBus::write_io_register
WriteIoRegister(bus, address, value) ==
    CASE address = 65280 ->
           [bus |-> [bus EXCEPT !.joypad = WriteJoypad(bus.joypad, value)],
            panic |-> FALSE]
      [] address \in {65281, 65282, 65297, 65298, 65299, 65300, 65316,
                      65317, 65318, 65357} ->
           [bus |-> bus, panic |-> FALSE]
      [] address = 65284 ->
           [bus |-> [bus EXCEPT !.timer.divider = 0], panic |-> FALSE]
      [] address = 65285 ->
           [bus |-> [bus EXCEPT !.timer.counter = value], panic |-> FALSE]
      [] address = 65286 ->
           [bus |-> [bus EXCEPT !.timer.modulo = value], panic |-> FALSE]
      [] address = 65287 ->
           [bus |-> [bus EXCEPT !.timer.control = value], panic |-> FALSE]
      [] address = 65295 ->
           IF InterruptFromBitsOk(value)
           THEN [bus |-> [bus EXCEPT !.interrupt_flag = value],
                 panic |-> FALSE]
           ELSE [bus |-> bus, panic |-> TRUE]
      [] address = 65344 ->
           [bus |-> [bus EXCEPT !.gpu.lcd_control = value], panic |-> FALSE]
      [] address = 65346 ->
           [bus |-> [bus EXCEPT !.gpu.scroll_y = value], panic |-> FALSE]
      [] address = 65347 ->
           [bus |-> [bus EXCEPT !.gpu.scroll_x = value], panic |-> FALSE]
      [] address = 65351 ->
           [bus |-> [bus EXCEPT !.gpu.background_colours = value],
            panic |-> FALSE]
      [] address = 65360 ->
           [bus |-> DisableBootRom(bus, value), panic |-> FALSE]
      [] address = 65535 ->
           IF InterruptFromBitsOk(value)
           THEN [bus |-> [bus EXCEPT !.interrupt_enabled = value],
                 panic |-> FALSE]
           ELSE [bus |-> bus, panic |-> TRUE]
      [] OTHER -> [bus |-> bus, panic |-> TRUE]

\* MemoryBus::write_byte: the new bus, or panic when the arm is todo!()
WriteByte(bus, address, value) ==
    CASE address <= 32767 ->
           [bus |-> [bus EXCEPT !.mem = MemSet(bus.mem, address, value)],
            panic |-> FALSE]
      [] address >= 40960 /\ address <= 57343 ->
           [bus |-> [bus EXCEPT !.mem = MemSet(bus.mem, address, value)],
            panic |-> FALSE]
      [] address >= 57344 /\ address <= 65023 ->
           [bus |-> [bus EXCEPT
                       !.mem = MemSet(bus.mem, EchoToWram(address), value)],
            panic |-> FALSE]
      [] address >= 65024 /\ address <= 65183 ->
           [bus |-> [bus EXCEPT !.mem = MemSet(bus.mem, address, value)],
            panic |-> FALSE]
      [] address >= 32768 /\ address <= 40959 ->
           [bus |-> WriteVram(bus, address - 32768, value), panic |-> FALSE]
      [] (address >= 65280 /\ address <= 65407) \/ address = 65535 ->
           WriteIoRegister(bus, address, value)
      [] address >= 65408 /\ address <= 65534 ->
           [bus |-> [bus EXCEPT !.mem = MemSet(bus.mem, address, value)],
            panic |-> FALSE]
      [] OTHER -> [bus |-> bus, panic |-> TRUE]

\* MemoryBus::read_word (little-endian, read_byte(address) and
\* read_byte(address + 1))
ReadWord(bus, address) ==
    Only({ [val |-> FromLeBytes(lo.val, hi.val),
            panic |-> lo.panic \/ hi.panic \/ AddU16(bus, address, 1).panic] :
           lo \in {ReadByte(bus, address)},
           hi \in {ReadByte(bus, Wrap16(address + 1))} })

\* MemoryBus::write_word: write_byte(address, low), write_byte(address + 1,
\* high); a panic leaves what was written before it
WriteWord(bus, address, value) ==
    Only({ IF w1.panic \/ AddU16(bus, address, 1).panic
           THEN [bus |-> w1.bus, panic |-> TRUE]
           ELSE WriteByte(w1.bus, Wrap16(address + 1), ToLeBytes(value).hi) :
           w1 \in {WriteByte(bus, address, ToLeBytes(value).lo)} })

\* MemoryBus::is_interrupt_pending
IsInterruptPending(bus) ==
    And8(bus.interrupt_enabled, bus.interrupt_flag) # 0

\* index of the highest set bit of a non-zero five-bit set
HighestBit(triggers) ==
    CHOOSE k \in 0..4 :
        Bit(triggers, k) = 1 /\ \A j \in (k + 1)..4 : Bit(triggers, j) = 0

\* BitFlags::iter().next(): the flags come out from bit 0 upwards
LowestBit(triggers) ==
    CHOOSE k \in 0..4 :
        Bit(triggers, k) = 1 /\ \A j \in 0..(k - 1) : Bit(triggers, j) = 0

\* MemoryBus::try_get_first_interrupt, as the bit index of the flag (Some)
TryGetFirstInterruptPicksLast(bus) ==
    HighestBit(And8(bus.interrupt_enabled, bus.interrupt_flag))

TryGetFirstInterrupt(bus) ==
    LowestBit(And8(bus.interrupt_enabled, bus.interrupt_flag))

\* the match of pop_interrupt_handler_address: flag (bit index) to vector
HandlerAddress(flag) ==
    CASE flag = 0 -> 64
      [] flag = 1 -> 72
      [] flag = 2 -> 80
      [] flag = 3 -> 88
      [] flag = 4 -> 96

\* MemoryBus::pop_interrupt_handler_address; get_first_interrupt's expect
\* panics when IE and IF share no flag
PopInterruptHandlerAddress(bus) ==
    IF ~IsInterruptPending(bus)
    THEN [bus |-> bus, val |-> 0, panic |-> TRUE]
    ELSE LET flag == TryGetFirstInterrupt(bus)
         IN [bus |-> [bus EXCEPT
                        !.interrupt_flag = ClearBit(bus.interrupt_flag, flag)],
             val |-> HandlerAddress(flag), panic |-> FALSE]

----------------------------------------------------------------------------
(* Instruction decoder (src/src/disassembler.rs).  An instruction is a     *)
(* record: op names the Instruction variant, target and source its         *)
(* operands, n its immediate (a signed offset is kept as its raw byte) and *)
(* len the number of bytes the decoder consumed.                           *)

\* Register::from_u8
RegisterName(i) == <<"B", "C", "D", "E", "H", "L", "(HL)", "A">>[i + 1]

\* Register16::from_u8
Register16Name(i) == <<"BC", "DE", "HL", "SP">>[i + 1]

\* Register16Alt::from_u8
Register16AltName(i) == <<"BC", "DE", "HL", "AF">>[i + 1]

\* JumpTest::from_u8
JumpTestName(i) == <<"NotZero", "Zero", "NotCarry", "Carry">>[i + 1]

\* Alu::from_u8
AluName(i) ==
    <<"Add", "Adc", "Sub", "Sbc", "And", "Xor", "Or", "Cp">>[i + 1]

\* Rot::from_u8
RotName(i) ==
    <<"Rlc", "Rrc", "Rl", "Rr", "Sla", "Sra", "Swap", "Srl">>[i + 1]

NoInstruction ==
    [op |-> "None", target |-> "-", source |-> "-", n |-> 0, len |-> 0]

Ins(op, target, source, n, len) ==
    [op |-> op, target |-> target, source |-> source, n |-> n, len |-> len]

\* parse_instruction panicked: todo!() for an opcode not decoded yet
\* ("Nyi"), panic!("non-existent instruction") for an undefined one
DecodePanics(ins) == ins.op \in {"Nyi", "NonExistent"}

NonExistentInstructionIsNop == Ins("Nop", "-", "-", 0, 1)

\* panic!("non-existent instruction") inside parse_instruction
NonExistentInstruction == Ins("NonExistent", "-", "-", 0, 1)

\* prefixed_instruction on the byte after 0xCB
PrefixedInstruction(b1) ==
    LET x == b1 \div 64
        y == (b1 \div 8) % 8
        z == b1 % 8
    IN CASE x = 0 -> Ins("Rot", RotName(y), RegisterName(z), 0, 2)
         [] x = 1 -> Ins("Bit", "-", RegisterName(z), y, 2)
         [] x = 2 -> Ins("Res", "-", RegisterName(z), y, 2)
         [] x = 3 -> Ins("Set", "-", RegisterName(z), y, 2)

\* the x = 0 block of parse_instruction
ParseX0(y, z, p, q, b1, b2) ==
    CASE z = 0 /\ y = 0 -> Ins("Nop", "-", "-", 0, 1)
      [] z = 0 /\ y = 1 ->
           Ins("LdFromSp", "Immediate", "SP", FromLeBytes(b1, b2), 3)
      [] z = 0 /\ y = 2 -> Ins("Nyi", "-", "-", 0, 1)
      [] z = 0 /\ y = 3 -> Ins("JR", "Always", "-", b1, 2)
      [] z = 0 /\ y >= 4 -> Ins("JR", JumpTestName(y - 4), "-", b1, 2)
      [] z = 1 /\ q = 0 ->
           Ins("LdWord", Register16Name(p), "Immediate",
               FromLeBytes(b1, b2), 3)
      [] z = 1 /\ q = 1 -> Ins("AddHl", "-", Register16Name(p), 0, 1)
      [] z = 2 ->
           Ins("LdIndirect", <<"BC", "DE", "HLInc", "HLDec">>[p + 1],
               IF q = 0 THEN "FromA" ELSE "IntoA", 0, 1)
      [] z = 3 /\ q = 0 -> Ins("Inc16", Register16Name(p), "-", 0, 1)
      [] z = 3 /\ q = 1 -> Ins("Dec16", Register16Name(p), "-", 0, 1)
      [] z = 4 -> Ins("Inc", RegisterName(y), "-", 0, 1)
      [] z = 5 -> Ins("Dec", RegisterName(y), "-", 0, 1)
      [] z = 6 -> Ins("LdByte", RegisterName(y), "Immediate", b1, 2)
      [] z = 7 ->
           Ins(<<"Rlca", "Rrca", "Rla", "Rra", "Daa", "Cpl", "Scf",
                 "Ccf">>[y + 1], "-", "-", 0, 1)

\* the x = 3 block of parse_instruction
ParseX3(y, z, p, q, b1, b2) ==
    CASE z = 0 /\ y <= 3 -> Ins("Ret", JumpTestName(y), "-", 0, 1)
      [] z = 0 /\ y = 4 -> Ins("Ldh", "Immediate", "A", b1, 2)
      [] z = 0 /\ y = 6 -> Ins("Ldh", "A", "Immediate", b1, 2)
      [] z = 0 /\ y = 5 -> Ins("AddSp", "-", "-", b1, 2)
      [] z = 0 /\ y = 7 -> Ins("LdFromSp", "HL", "SP", b1, 2)
      [] z = 1 /\ q = 0 -> Ins("Pop", Register16AltName(p), "-", 0, 1)
      [] z = 1 /\ q = 1 /\ p = 0 -> Ins("Ret", "Always", "-", 0, 1)
      [] z = 1 /\ q = 1 /\ p = 1 -> Ins("Reti", "-", "-", 0, 1)
      [] z = 1 /\ q = 1 /\ p = 2 -> Ins("JP", "Always", "HL", 0, 1)
      [] z = 1 /\ q = 1 /\ p = 3 -> Ins("LdWord", "SP", "HL", 0, 1)
      [] z = 2 /\ y <= 3 ->
           Ins("JP", JumpTestName(y), "Immediate", FromLeBytes(b1, b2), 3)
      [] z = 2 /\ y = 4 -> Ins("Ldh", "C", "A", 0, 1)
      [] z = 2 /\ y = 6 -> Ins("Ldh", "A", "C", 0, 1)
      [] z = 2 /\ y = 5 ->
           Ins("LdIndirect", "Immediate", "FromA", FromLeBytes(b1, b2), 3)
      [] z = 2 /\ y = 7 ->
           Ins("LdIndirect", "Immediate", "IntoA", FromLeBytes(b1, b2), 3)
      [] z = 3 /\ y = 0 ->
           Ins("JP", "Always", "Immediate", FromLeBytes(b1, b2), 3)
      [] z = 3 /\ y = 1 -> PrefixedInstruction(b1)
      [] z = 3 /\ y = 6 -> Ins("Di", "-", "-", 0, 1)
      [] z = 3 /\ y = 7 -> Ins("Ei", "-", "-", 0, 1)
      [] z = 3 /\ y \in 2..5 -> NonExistentInstruction
      [] z = 4 /\ y <= 3 ->
           Ins("Call", JumpTestName(y), "-", FromLeBytes(b1, b2), 3)
      [] z = 4 /\ y >= 4 -> NonExistentInstruction
      [] z = 5 /\ q = 0 -> Ins("Push", "-", Register16AltName(p), 0, 1)
      [] z = 5 /\ q = 1 /\ p = 0 ->
           Ins("Call", "Always", "-", FromLeBytes(b1, b2), 3)
      [] z = 5 /\ q = 1 /\ p >= 1 -> NonExistentInstruction
      [] z = 6 -> Ins("Arithmetic", AluName(y), "Immediate", b1, 2)
      [] z = 7 -> Ins("Reset", "-", "-", y * 8, 1)

\* parse_instruction on the first three bytes of the slice (the x/y/z split
\* of the opcode)
ParseInstruction(b0, b1, b2) ==
    LET x == b0 \div 64
        y == (b0 \div 8) % 8
        z == b0 % 8
        p == y \div 2
        q == y % 2
    IN CASE x = 0 -> ParseX0(y, z, p, q, b1, b2)
         [] x = 1 /\ z = 6 /\ y = 6 -> Ins("Halt", "-", "-", 0, 1)
         [] x = 1 /\ ~(z = 6 /\ y = 6) ->
              Ins("LdByte", RegisterName(y), RegisterName(z), 0, 1)
         [] x = 2 -> Ins("Arithmetic", AluName(y), RegisterName(z), 0, 1)
         [] x = 3 -> ParseX3(y, z, p, q, b1, b2)

----------------------------------------------------------------------------
(* CPU (src/src/cpu.rs).                                                   *)

\* Cpu::new(None, game_rom, test_mode)
NewCpu(game_rom, test_mode) ==
    [registers |-> PostBootRegisters, pc |-> 256, sp |-> 65534,
     interrupts_enabled |-> FALSE,
     bus |-> NewBus(NoBootRom, game_rom, test_mode)]

\* Cpu::new(Some(boot_rom), game_rom, test_mode)
NewCpuWithBootRom(boot_rom, game_rom, test_mode) ==
    [registers |-> DefaultRegisters, pc |-> 0, sp |-> 0,
     interrupts_enabled |-> FALSE,
     bus |-> NewBus(boot_rom, game_rom, test_mode)]

\* BitFlags::contains on the byte of F
Contains(f, flag) == (f \div flag) % 2 = 1

\* Registers::set_flag: BitFlags::set(flag, condition)
SetFlag(f, flag, condition) ==
    IF condition THEN (IF Contains(f, flag) THEN f ELSE f + flag)
    ELSE (IF Contains(f, flag) THEN f - flag ELSE f)

\* F after setting all four flags
Flags4(f, zero, subtraction, half_carry, carry) ==
    SetFlag(SetFlag(SetFlag(SetFlag(f, ZERO_FLAG, zero),
                            SUBTRACTION_FLAG, subtraction),
                    HALF_CARRY_FLAG, half_carry),
            CARRY_FLAG, carry)

Or8(x, y) == x + y - And8(x, y)

Xor8(x, y) == x + y - 2 * And8(x, y)

\* an i8 operand, kept as its byte, as an integer
Signed8(n) == IF n >= 128 THEN n - 256 ELSE n

\* Cpu::add: the new value and the registers with the flags it sets
add(r, value, add_carry) ==
    LET carry == IF add_carry /\ Contains(r.f, CARRY_FLAG) THEN 1 ELSE 0
        first == r.a + value
        second == (first % 256) + carry
        new_value == second % 256
    IN [val |-> new_value,
        regs |-> [r EXCEPT !.f =
                    Flags4(r.f, new_value = 0, FALSE,
                           (r.a % 16) + (value % 16) + carry > 15,
                           first > 255 \/ second > 255)]]

\* Cpu::add_hl (Zero is left alone)
add_hl(r, value) ==
    LET sum == hl(r) + value
    IN [val |-> sum % 65536,
        regs |-> [r EXCEPT !.f =
                    Flags4(r.f, Contains(r.f, ZERO_FLAG), FALSE,
                           (hl(r) % 4096) + (value % 4096) > 4095,
                           sum > 65535)]]

add_signed_word_carry(r, value, offset) ==
    [val |-> (value + Signed8(offset) + 65536) % 65536,
     regs |-> [r EXCEPT !.f =
                 Flags4(r.f, FALSE, FALSE,
                        (value % 4096) + (offset % 4096) > 4095,
                        value + offset > 65535)]]

\* Cpu::add_signed: value plus the i8 offset, carries as of the low byte
add_signed(r, value, offset) ==
    [val |-> (value + Signed8(offset) + 65536) % 65536,
     regs |-> [r EXCEPT !.f =
                 Flags4(r.f, FALSE, FALSE,
                        (value % 16) + (offset % 16) > 15,
                        (value % 256) + offset > 255)]]

\* Cpu::and
and(r, value) ==
    [val |-> And8(r.a, value),
     regs |-> [r EXCEPT !.f =
                 Flags4(r.f, And8(r.a, value) = 0, FALSE, TRUE, FALSE)]]

\* Cpu::or
or(r, value) ==
    [val |-> Or8(r.a, value),
     regs |-> [r EXCEPT !.f =
                 Flags4(r.f, Or8(r.a, value) = 0, FALSE, FALSE, FALSE)]]

\* Cpu::xor
xor(r, value) ==
    [val |-> Xor8(r.a, value),
     regs |-> [r EXCEPT !.f =
                 Flags4(r.f, Xor8(r.a, value) = 0, FALSE, FALSE, FALSE)]]

\* Cpu::sub
sub(r, value, sub_carry) ==
    LET carry == IF sub_carry /\ Contains(r.f, CARRY_FLAG) THEN 1 ELSE 0
        first == (r.a - value + 256) % 256
        new_value == (first - carry + 256) % 256
    IN [val |-> new_value,
        regs |-> [r EXCEPT !.f =
                    Flags4(r.f, new_value = 0, TRUE,
                           (r.a % 16) < (value % 16) + carry,
                           r.a < value \/ first < carry)]]

\* Cpu::cp: only the flags change
cp(r, value) ==
    [r EXCEPT !.f = Flags4(r.f, r.a = value, TRUE,
                           (r.a % 16) < (value % 16), r.a < value)]

\* Cpu::bit (Carry is left alone)
bit(r, mask, value) ==
    [r EXCEPT !.f = Flags4(r.f, And8(value, mask) = 0, FALSE, TRUE,
                           Contains(r.f, CARRY_FLAG))]

\* Cpu::inc (Carry is left alone)
inc(r, value) ==
    [val |-> (value + 1) % 256,
     regs |-> [r EXCEPT !.f =
                 Flags4(r.f, (value + 1) % 256 = 0, FALSE,
                        (value % 16) + 1 > 15, Contains(r.f, CARRY_FLAG))]]

\* Cpu::dec (Carry is left alone); trailing_zeros() >= 4 is low nibble 0
dec(r, value) ==
    [val |-> (value + 255) % 256,
     regs |-> [r EXCEPT !.f =
                 Flags4(r.f, (value + 255) % 256 = 0, TRUE,
                        value % 16 = 0, Contains(r.f, CARRY_FLAG))]]

rotate_left_circular(r, value, set_zero) ==
    LET new_value == ((value * 2) % 256) + (value \div 128)
    IN [val |-> new_value,
        regs |-> [r EXCEPT !.f =
                    Flags4(r.f, new_value = 0 /\ set_zero, FALSE, FALSE,
                           value \div 128 = 1)]]

\* Cpu::rotate_left_through_carry
rotate_left_through_carry(r, value, set_zero) ==
    LET carry == IF Contains(r.f, CARRY_FLAG) THEN 1 ELSE 0
        new_value == ((value * 2) % 256) + carry
    IN [val |-> new_value,
        regs |-> [r EXCEPT !.f =
                    Flags4(r.f, new_value = 0 /\ set_zero, FALSE, FALSE,
                           value \div 128 = 1)]]

\* Cpu::rotate_right_through_carry
rotate_right_through_carry(r, value, set_zero) ==
    LET carry == IF Contains(r.f, CARRY_FLAG) THEN 1 ELSE 0
        new_value == (value \div 2) + carry * 128
    IN [val |-> new_value,
        regs |-> [r EXCEPT !.f =
                    Flags4(r.f, new_value = 0 /\ set_zero, FALSE, FALSE,
                           value % 2 = 1)]]

\* Cpu::shift_right
shift_right(r, value, preserve_msb) ==
    LET mask == IF preserve_msb THEN value - (value % 128) ELSE 0
        new_value == (value \div 2) + mask
    IN [val |-> new_value,
        regs |-> [r EXCEPT !.f =
                    Flags4(r.f, new_value = 0, FALSE, FALSE, value % 2 = 1)]]

daa_keeps_half_carry(r) ==
    LET value == r.a
        half_carry == Contains(r.f, HALF_CARRY_FLAG)
        carry == Contains(r.f, CARRY_FLAG)
        subtraction == Contains(r.f, SUBTRACTION_FLAG)
        first == IF half_carry \/ (~subtraction /\ value % 16 > 9)
                 THEN 6 ELSE 0
        adjust == IF carry \/ (~subtraction /\ value > 153)
                  THEN first + 96 ELSE first
        new_value == IF subtraction THEN (value - adjust + 256) % 256
                     ELSE (value + adjust) % 256
    IN [val |-> new_value,
        regs |-> [r EXCEPT !.f =
                    Flags4(r.f, new_value = 0, subtraction, half_carry,
                           carry \/ (~subtraction /\ value > 153))]]

\* Cpu::daa (Subtraction is left alone)
daa(r) ==
    LET value == r.a
        half_carry == Contains(r.f, HALF_CARRY_FLAG)
        carry == Contains(r.f, CARRY_FLAG)
        subtraction == Contains(r.f, SUBTRACTION_FLAG)
        first == IF half_carry \/ (~subtraction /\ value % 16 > 9)
                 THEN 6 ELSE 0
        adjust == IF carry \/ (~subtraction /\ value > 153)
                  THEN first + 96 ELSE first
        new_value == IF subtraction THEN (value - adjust + 256) % 256
                     ELSE (value + adjust) % 256
    IN [val |-> new_value,
        regs |-> [r EXCEPT !.f =
                    Flags4(r.f, new_value = 0, subtraction, FALSE,
                           carry \/ (~subtraction /\ value > 153))]]

\* Cpu::match_register
MatchRegister(c, register) ==
    CASE register = "A" -> [val |-> c.registers.a, panic |-> FALSE]
      [] register = "B" -> [val |-> c.registers.b, panic |-> FALSE]
      [] register = "C" -> [val |-> c.registers.c, panic |-> FALSE]
      [] register = "D" -> [val |-> c.registers.d, panic |-> FALSE]
      [] register = "E" -> [val |-> c.registers.e, panic |-> FALSE]
      [] register = "L" -> [val |-> c.registers.l, panic |-> FALSE]
      [] register = "H" -> [val |-> c.registers.h, panic |-> FALSE]
      [] register = "(HL)" -> ReadByte(c.bus, hl(c.registers))

\* Cpu::write_register
WriteRegister(c, register, value) ==
    CASE register = "A" ->
           [cpu |-> [c EXCEPT !.registers.a = value], panic |-> FALSE]
      [] register = "B" ->
           [cpu |-> [c EXCEPT !.registers.b = value], panic |-> FALSE]
      [] register = "C" ->
           [cpu |-> [c EXCEPT !.registers.c = value], panic |-> FALSE]
      [] register = "D" ->
           [cpu |-> [c EXCEPT !.registers.d = value], panic |-> FALSE]
      [] register = "E" ->
           [cpu |-> [c EXCEPT !.registers.e = value], panic |-> FALSE]
      [] register = "L" ->
           [cpu |-> [c EXCEPT !.registers.l = value], panic |-> FALSE]
      [] register = "H" ->
           [cpu |-> [c EXCEPT !.registers.h = value], panic |-> FALSE]
      [] register = "(HL)" ->
           Only({ [cpu |-> [c EXCEPT !.bus = w.bus], panic |-> w.panic] :
                  w \in {WriteByte(c.bus, hl(c.registers), value)} })

PushLowByteFirst(c, value) ==
    Only({ IF w1.panic
           THEN [cpu |-> [c EXCEPT !.sp = Wrap16(c.sp + 65535)], panic |-> TRUE]
           ELSE Only({ [cpu |-> [c EXCEPT !.sp = Wrap16(c.sp + 65534),
                                          !.bus = w2.bus],
                        panic |-> w2.panic] :
                       w2 \in {WriteByte(w1.bus, Wrap16(c.sp + 65534),
                                         value \div 256)} }) :
           w1 \in {WriteByte(c.bus, Wrap16(c.sp + 65535), value % 256)} })

\* Cpu::push: high byte at SP-1, low byte at SP-2
Push(c, value) ==
    Only({ IF w1.panic
           THEN [cpu |-> [c EXCEPT !.sp = Wrap16(c.sp + 65535)], panic |-> TRUE]
           ELSE Only({ [cpu |-> [c EXCEPT !.sp = Wrap16(c.sp + 65534),
                                          !.bus = w2.bus],
                        panic |-> w2.panic] :
                       w2 \in {WriteByte(w1.bus, Wrap16(c.sp + 65534),
                                         value % 256)} }) :
           w1 \in {WriteByte(c.bus, Wrap16(c.sp + 65535), value \div 256)} })

\* Cpu::pop: read_word(sp), then sp += 2
Pop(c) ==
    Only({ IF word.panic THEN [cpu |-> c, val |-> 0, panic |-> TRUE]
           ELSE [cpu |-> [c EXCEPT !.sp = Wrap16(c.sp + 2)],
                 val |-> word.val, panic |-> FALSE] :
           word \in {ReadWord(c.bus, c.sp)} })

ExecutedAtNoCost(c, next_pc, n) ==
    [cpu |-> c, next_pc |-> next_pc, cycles |-> 0, panic |-> FALSE]

\* what execute returns, or the panic that ended it, with the state it left
Executed(c, next_pc, n) ==
    [cpu |-> c, next_pc |-> next_pc, cycles |-> n, panic |-> FALSE]

Panicked(c) == [cpu |-> c, next_pc |-> c.pc, cycles |-> 0, panic |-> TRUE]

\* the LoadType::Byte arm of execute
ExecuteLdByte(c, ins) ==
    Only({ IF value.panic THEN Panicked(c)
           ELSE Only({ IF w.panic THEN Panicked(w.cpu)
                       ELSE IF ins.source = "Immediate"
                            THEN Executed(w.cpu, Wrap16(c.pc + 2), 8)
                            ELSE Executed(w.cpu, Wrap16(c.pc + 1), 4) :
                       w \in {WriteRegister(c, ins.target, value.val)} }) :
           value \in {IF ins.source = "Immediate"
                      THEN [val |-> ins.n, panic |-> FALSE]
                      ELSE MatchRegister(c, ins.source)} })

\* the LoadType::LastByteAddress arm of execute
ExecuteLdh(c, ins) ==
    LET from_a == ins.source = "A"
        operand == IF from_a THEN ins.target ELSE ins.source
        offset == IF operand = "C" THEN c.registers.c ELSE ins.n
        address == 65280 + offset
        next_pc == IF operand = "C" THEN Wrap16(c.pc + 1) ELSE Wrap16(c.pc + 2)
        n == IF operand = "C" THEN 8 ELSE 12
    IN IF from_a
       THEN Only({ IF w.panic THEN Panicked(c)
                   ELSE Executed([c EXCEPT !.bus = w.bus], next_pc, n) :
                   w \in {WriteByte(c.bus, address, c.registers.a)} })
       ELSE Only({ IF r.panic THEN Panicked(c)
                   ELSE Executed([c EXCEPT !.registers.a = r.val], next_pc, n) :
                   r \in {ReadByte(c.bus, address)} })

\* the Instruction::Push arm of execute
ExecutePush(c, ins) ==
    LET value == CASE ins.source = "BC" -> bc(c.registers)
                   [] ins.source = "DE" -> de(c.registers)
                   [] ins.source = "HL" -> hl(c.registers)
                   [] ins.source = "AF" -> af(c.registers)
    IN Only({ IF pushed.panic THEN Panicked(pushed.cpu)
              ELSE Executed(pushed.cpu, Wrap16(c.pc + 1), 16) :
              pushed \in {Push(c, value)} })

\* the Instruction::Pop arm of execute
ExecutePop(c, ins) ==
    Only({ IF popped.panic THEN Panicked(c)
           ELSE LET c1 == popped.cpu
                    set == set_af(c1.registers, popped.val)
                    value == popped.val
                IN CASE ins.target = "BC" ->
                          Executed([c1 EXCEPT !.registers =
                                        set_bc(c1.registers, value)],
                                   Wrap16(c.pc + 1), 12)
                     [] ins.target = "DE" ->
                          Executed([c1 EXCEPT !.registers =
                                        set_de(c1.registers, value)],
                                   Wrap16(c.pc + 1), 12)
                     [] ins.target = "HL" ->
                          Executed([c1 EXCEPT !.registers =
                                        set_hl(c1.registers, value)],
                                   Wrap16(c.pc + 1), 12)
                     [] ins.target = "AF" ->
                          IF set.panic
                          THEN Panicked([c1 EXCEPT !.registers = set.regs])
                          ELSE Executed([c1 EXCEPT !.registers = set.regs],
                                        Wrap16(c.pc + 1), 12) :
           popped \in {Pop(c)} })

\* Cpu::match_register16
MatchRegister16(c, register) ==
    CASE register = "SP" -> c.sp
      [] register = "BC" -> bc(c.registers)
      [] register = "DE" -> de(c.registers)
      [] register = "HL" -> hl(c.registers)

\* Cpu::write_register16
WriteRegister16(c, register, value) ==
    CASE register = "SP" -> [c EXCEPT !.sp = value]
      [] register = "BC" -> [c EXCEPT !.registers = set_bc(c.registers, value)]
      [] register = "DE" -> [c EXCEPT !.registers = set_de(c.registers, value)]
      [] register = "HL" -> [c EXCEPT !.registers = set_hl(c.registers, value)]

\* Cpu::match_jump_condition
MatchJumpCondition(c, condition) ==
    CASE condition = "NotZero" -> ~Contains(c.registers.f, ZERO_FLAG)
      [] condition = "Zero" -> Contains(c.registers.f, ZERO_FLAG)
      [] condition = "NotCarry" -> ~Contains(c.registers.f, CARRY_FLAG)
      [] condition = "Carry" -> Contains(c.registers.f, CARRY_FLAG)
      [] condition = "Always" -> TRUE

\* the LoadType::Indirect arm of execute
ExecuteLdIndirect(c, ins) ==
    LET address == CASE ins.target = "BC" -> bc(c.registers)
                     [] ins.target = "DE" -> de(c.registers)
                     [] ins.target \in {"HLInc", "HLDec"} -> hl(c.registers)
                     [] ins.target = "Immediate" -> ins.n
        adjusted(c1) ==
            CASE ins.target = "HLInc" ->
                   [c1 EXCEPT !.registers =
                        set_hl(c1.registers, Wrap16(address + 1))]
              [] ins.target = "HLDec" ->
                   [c1 EXCEPT !.registers =
                        set_hl(c1.registers, Wrap16(address + 65535))]
              [] OTHER -> c1
        next_pc == IF ins.target = "Immediate" THEN Wrap16(c.pc + 3)
                   ELSE Wrap16(c.pc + 1)
        n == IF ins.target = "Immediate" THEN 16 ELSE 8
    IN IF ins.source = "IntoA"
       THEN Only({ IF r.panic THEN Panicked(c)
                   ELSE Executed(adjusted([c EXCEPT !.registers.a = r.val]),
                                 next_pc, n) :
                   r \in {ReadByte(c.bus, address)} })
       ELSE Only({ IF w.panic THEN Panicked(c)
                   ELSE Executed(adjusted([c EXCEPT !.bus = w.bus]),
                                 next_pc, n) :
                   w \in {WriteByte(c.bus, address, c.registers.a)} })

\* the LoadType::Word arm of execute
ExecuteLdWord(c, ins) ==
    IF ins.source = "Immediate"
    THEN Executed(WriteRegister16(c, ins.target, ins.n), Wrap16(c.pc + 3), 12)
    ELSE Executed(WriteRegister16(c, ins.target, hl(c.registers)),
                  Wrap16(c.pc + 1), 8)

\* the LoadType::FromSp arm of execute
ExecuteLdFromSp(c, ins) ==
    IF ins.target = "Immediate"
    THEN Only({ IF w.panic THEN Panicked([c EXCEPT !.bus = w.bus])
                ELSE Executed([c EXCEPT !.bus = w.bus], Wrap16(c.pc + 3), 20) :
                w \in {WriteWord(c.bus, ins.n, c.sp)} })
    ELSE Only({ Executed([c EXCEPT !.registers = set_hl(s.regs, s.val)],
                         Wrap16(c.pc + 2), 12) :
                s \in {add_signed(c.registers, c.sp, ins.n)} })

\* the Instruction::AddHl arm of execute
ExecuteAddHl(c, ins) ==
    Only({ Executed([c EXCEPT !.registers = set_hl(s.regs, s.val)],
                    Wrap16(c.pc + 1), 8) :
           s \in {add_hl(c.registers, MatchRegister16(c, ins.source))} })

\* the Instruction::AddSp arm of execute
ExecuteAddSp(c, ins) ==
    Only({ Executed([c EXCEPT !.registers = s.regs, !.sp = s.val],
                    Wrap16(c.pc + 2), 16) :
           s \in {add_signed(c.registers, c.sp, ins.n)} })

\* the operation of one Alu variant on A: the registers it leaves
AluApply(r, alu, value) ==
    CASE alu \in {"Add", "Adc"} ->
           Only({ [s.regs EXCEPT !.a = s.val] :
                  s \in {add(r, value, alu = "Adc")} })
      [] alu \in {"Sub", "Sbc"} ->
           Only({ [s.regs EXCEPT !.a = s.val] :
                  s \in {sub(r, value, alu = "Sbc")} })
      [] alu = "And" ->
           Only({ [s.regs EXCEPT !.a = s.val] : s \in {and(r, value)} })
      [] alu = "Or" ->
           Only({ [s.regs EXCEPT !.a = s.val] : s \in {or(r, value)} })
      [] alu = "Xor" ->
           Only({ [s.regs EXCEPT !.a = s.val] : s \in {xor(r, value)} })
      [] alu = "Cp" -> cp(r, value)

\* the Instruction::Arithmetic arm of execute
ExecuteArithmetic(c, ins) ==
    Only({ IF value.panic THEN Panicked(c)
           ELSE Executed([c EXCEPT !.registers =
                              AluApply(c.registers, ins.target, value.val)],
                         IF ins.source = "Immediate" THEN Wrap16(c.pc + 2)
                         ELSE Wrap16(c.pc + 1),
                         IF ins.source \in {"Immediate", "(HL)"} THEN 8
                         ELSE 4) :
           value \in {IF ins.source = "Immediate"
                      THEN [val |-> ins.n, panic |-> FALSE]
                      ELSE MatchRegister(c, ins.source)} })

ExecuteBitOneByte(c, ins) ==
    Only({ IF value.panic THEN Panicked(c)
           ELSE Executed([c EXCEPT !.registers =
                              bit(c.registers, Pow2(ins.n), value.val)],
                         Wrap16(c.pc + 1),
                         IF ins.source = "(HL)" THEN 12 ELSE 8) :
           value \in {MatchRegister(c, ins.source)} })

\* the Instruction::Bit arm of execute
ExecuteBit(c, ins) ==
    Only({ IF value.panic THEN Panicked(c)
           ELSE Executed([c EXCEPT !.registers =
                              bit(c.registers, Pow2(ins.n), value.val)],
                         Wrap16(c.pc + 2),
                         IF ins.source = "(HL)" THEN 12 ELSE 8) :
           value \in {MatchRegister(c, ins.source)} })

\* Cpu::relative_jump
RelativeJump(c, should_jump, offset) ==
    IF should_jump
    THEN Executed(c, (c.pc + 2 + Signed8(offset) + 65536) % 65536, 12)
    ELSE Executed(c, Wrap16(c.pc + 2), 8)

\* Cpu::jump
Jump(c, should_jump, address) ==
    IF should_jump THEN Executed(c, address, 16)
    ELSE Executed(c, Wrap16(c.pc + 3), 12)

\* the Instruction::JP arm of execute
ExecuteJP(c, ins) ==
    IF ins.source = "HL" THEN Executed(c, hl(c.registers), 4)
    ELSE Jump(c, MatchJumpCondition(c, ins.target), ins.n)

\* the Instruction::Inc and Instruction::Dec arms of execute
ExecuteIncDec(c, ins) ==
    Only({ IF value.panic THEN Panicked(c)
           ELSE Only({ Only({
                  IF w.panic THEN Panicked(w.cpu)
                  ELSE Executed(w.cpu, Wrap16(c.pc + 1),
                                IF ins.target = "(HL)" THEN 12 ELSE 4) :
                  w \in {WriteRegister([c EXCEPT !.registers = s.regs],
                                       ins.target, s.val)} }) :
                s \in {IF ins.op = "Inc" THEN inc(c.registers, value.val)
                       ELSE dec(c.registers, value.val)} }) :
           value \in {MatchRegister(c, ins.target)} })

\* the Instruction::Inc16 and Instruction::Dec16 arms of execute
ExecuteIncDec16(c, ins) ==
    Executed(WriteRegister16(c, ins.target,
                 Wrap16(MatchRegister16(c, ins.target)
                        + (IF ins.op = "Inc16" THEN 1 ELSE 65535))),
             Wrap16(c.pc + 1), 8)

\* Cpu::call, under the Instruction::Call arm of execute
ExecuteCall(c, ins) ==
    IF MatchJumpCondition(c, ins.target)
    THEN Only({ IF pushed.panic THEN Panicked(pushed.cpu)
                ELSE Executed(pushed.cpu, ins.n, 24) :
                pushed \in {Push(c, Wrap16(c.pc + 3))} })
    ELSE Executed(c, Wrap16(c.pc + 3), 12)

\* the Instruction::Ret arm of execute, with Cpu::retn
ExecuteRet(c, ins) ==
    Only({ IF address.panic THEN Panicked(c)
           ELSE IF MatchJumpCondition(c, ins.target)
                THEN Only({ IF popped.panic THEN Panicked(c)
                            ELSE Executed(popped.cpu, popped.val,
                                          IF ins.target = "Always" THEN 16
                                          ELSE 20) :
                            popped \in {Pop(c)} })
                ELSE Executed(c, Wrap16(c.pc + 1), 8) :
           address \in {ReadWord(c.bus, c.sp)} })

\* the Instruction::Rot arm of execute: RL, RR, SRA and SRL; every other
\* rotation reaches todo!()
ExecuteRot(c, ins) ==
    IF ins.target \notin {"Rl", "Rr", "Sra", "Srl"} THEN Panicked(c)
    ELSE Only({ IF value.panic THEN Panicked(c)
           ELSE Only({ Only({
                  IF w.panic THEN Panicked(w.cpu)
                  ELSE Executed(w.cpu, Wrap16(c.pc + 2),
                                IF ins.source = "(HL)" THEN 16 ELSE 8) :
                  w \in {WriteRegister([c EXCEPT !.registers = s.regs],
                                       ins.source, s.val)} }) :
                s \in {CASE ins.target = "Rl" ->
                              rotate_left_through_carry(c.registers,
                                                        value.val, TRUE)
                         [] ins.target = "Rr" ->
                              rotate_right_through_carry(c.registers,
                                                         value.val, TRUE)
                         [] OTHER ->
                              shift_right(c.registers, value.val,
                                          ins.target = "Sra")} }) :
           value \in {MatchRegister(c, ins.source)} })

\* the Rla, Rra and Daa arms of execute
ExecuteAccumulator(c, ins) ==
    Only({ Executed([c EXCEPT !.registers = [s.regs EXCEPT !.a = s.val]],
                    Wrap16(c.pc + 1), 4) :
           s \in {CASE ins.op = "Rla" ->
                         rotate_left_through_carry(c.registers,
                                                   c.registers.a, FALSE)
                    [] ins.op = "Rra" ->
                         rotate_right_through_carry(c.registers,
                                                    c.registers.a, FALSE)
                    [] ins.op = "Daa" -> daa(c.registers)} })

\* Cpu::execute: (next_pc, cycles) and the state it leaves.  A variant with
\* no arm (Halt, Reti, Reset, Rlca, Rrca, Cpl, Scf, Ccf, Res, Set) reaches
\* the final todo!().
Execute(c, ins) ==
    CASE ins.op = "Nop" -> Executed(c, Wrap16(c.pc + 1), 4)
      [] ins.op = "Di" ->
           Executed([c EXCEPT !.interrupts_enabled = FALSE],
                    Wrap16(c.pc + 1), 4)
      [] ins.op = "Ei" ->
           Executed([c EXCEPT !.interrupts_enabled = TRUE],
                    Wrap16(c.pc + 1), 4)
      [] ins.op = "LdIndirect" -> ExecuteLdIndirect(c, ins)
      [] ins.op = "LdByte" -> ExecuteLdByte(c, ins)
      [] ins.op = "LdWord" -> ExecuteLdWord(c, ins)
      [] ins.op = "Ldh" -> ExecuteLdh(c, ins)
      [] ins.op = "LdFromSp" -> ExecuteLdFromSp(c, ins)
      [] ins.op = "AddHl" -> ExecuteAddHl(c, ins)
      [] ins.op = "AddSp" -> ExecuteAddSp(c, ins)
      [] ins.op = "Arithmetic" -> ExecuteArithmetic(c, ins)
      [] ins.op = "Bit" -> ExecuteBit(c, ins)
      [] ins.op = "JR" ->
           RelativeJump(c, MatchJumpCondition(c, ins.target), ins.n)
      [] ins.op = "JP" -> ExecuteJP(c, ins)
      [] ins.op \in {"Inc", "Dec"} -> ExecuteIncDec(c, ins)
      [] ins.op \in {"Inc16", "Dec16"} -> ExecuteIncDec16(c, ins)
      [] ins.op = "Call" -> ExecuteCall(c, ins)
      [] ins.op = "Ret" -> ExecuteRet(c, ins)
      [] ins.op = "Push" -> ExecutePush(c, ins)
      [] ins.op = "Pop" -> ExecutePop(c, ins)
      [] ins.op = "Rot" -> ExecuteRot(c, ins)
      [] ins.op \in {"Rla", "Rra", "Daa"} -> ExecuteAccumulator(c, ins)
      [] OTHER -> Panicked(c)

\* MemoryBus::slice_from(pc): the bytes the decoder is given; pc + 1, pc + 2
\* and pc + 3 are plain u16 additions
SliceFrom(bus, pc) ==
    Only({ [b0 |-> b0.val, b1 |-> b1.val, b2 |-> b2.val, b3 |-> b3.val,
            panic |-> \/ b0.panic \/ b1.panic \/ b2.panic \/ b3.panic
                      \/ AddU16(bus, pc, 3).panic] :
           b0 \in {ReadByte(bus, pc)},
           b1 \in {ReadByte(bus, Wrap16(pc + 1))},
           b2 \in {ReadByte(bus, Wrap16(pc + 2))},
           b3 \in {ReadByte(bus, Wrap16(pc + 3))} })

\* the instruction Cpu::step is about to decode at pc
Fetched(c) ==
    Only({ ParseInstruction(slice.b0, slice.b1, slice.b2) :
           slice \in {SliceFrom(c.bus, c.pc)} })

\* Cpu::step: fetch, decode, execute, gpu.step(cycles), pc = next_pc
CpuStep(c) ==
    Only({ IF slice.panic
           THEN [cpu |-> c, cycles |-> 0, instr |-> NoInstruction,
                 panic |-> TRUE]
           ELSE Only({
                  IF DecodePanics(ins)
                  THEN [cpu |-> c, cycles |-> 0, instr |-> ins, panic |-> TRUE]
                  ELSE Only({
                    IF ex.panic
                    THEN [cpu |-> ex.cpu, cycles |-> 0, instr |-> ins,
                          panic |-> TRUE]
                    ELSE [cpu |-> [ex.cpu EXCEPT
                                     !.bus.gpu = GpuStep(ex.cpu.bus.gpu,
                                                         ex.cycles),
                                     !.pc = ex.next_pc],
                          cycles |-> ex.cycles, instr |-> ins,
                          panic |-> FALSE] :
                    ex \in {Execute(c, ins)} }) :
                ins \in {ParseInstruction(slice.b0, slice.b1, slice.b2)} }) :
           slice \in {SliceFrom(c.bus, c.pc)} })

NoCall == [op |-> "none", arg |-> 0, ret |-> 0]

\* the threads of main are not followed
NoThreads == [lock |-> "none"]

----------------------------------------------------------------------------
(* Spec: the emulation loop of main.rs stepping the CPU through a program. *)
(* The cartridge is the input: every sequence of ProgLen instructions of   *)
(* Menu, placed at the entry point 0x0100 of an otherwise zero ROM.        *)

\* instructions a program is made of, as their bytes:
\* NOP, EI, HALT, LDH (0xFF),A, LDH (0x0F),A, PUSH BC, POP AF
Menu ==
    << <<0>>, <<251>>, <<118>>, <<224, 255>>, <<224, 15>>, <<197>>, <<241>> >>

\* number of instructions in a program
ProgLen == 4

\* number of Cpu::step calls the loop is followed for
MaxSteps == 5

RECURSIVE Flatten(_)
Flatten(seqs) ==
    IF seqs = <<>> THEN <<>> ELSE Head(seqs) \o Flatten(Tail(seqs))

\* the game_rom slice holding the program, as bank-0 contents from 0x0100
GameRom(prog) ==
    LET bytes == Flatten([i \in 1..ProgLen |-> Menu[prog[i]]])
    IN [address \in 256..(255 + Len(bytes)) |-> bytes[address - 255]]

EmptyRom == [address \in {} |-> 0]

Init ==
    /\ \E prog \in [1..ProgLen -> 1..Len(Menu)] :
           cpu = NewCpu(GameRom(prog), FALSE)
    /\ status = "running"
    /\ threads = NoThreads
    /\ cycles = 0
    /\ steps = 0
    /\ instr = NoInstruction
    /\ call = NoCall

\* one pass of the inner loop of main: cycles = cpu.step()
Step ==
    /\ status = "running"
    /\ steps < MaxSteps
    /\ \E r \in {CpuStep(cpu)} :
          /\ cpu' = r.cpu
          /\ status' = IF r.panic THEN "panicked" ELSE "running"
          /\ cycles' = IF r.panic THEN cycles ELSE r.cycles
          /\ instr' = r.instr
    /\ steps' = steps + 1
    /\ UNCHANGED <<call, threads>>

Next == Step

Spec == Init /\ [][Next]_vars

----------------------------------------------------------------------------
(* SpecGpu: the GPU as the CPU drives it.  Every Cpu::step ends with       *)
(* gpu.step(cycles); a step may first store a byte to LCDC (0xFF40).       *)

\* the cycle counts execute returns
StepCycles == {4, 8, 12, 16, 20, 24}

\* LCDC bytes stored by the program: display off, display on
LcdcValues == {0, 128}

InitGpu ==
    /\ cpu = NewCpu(EmptyRom, FALSE)
    /\ status = "running"
    /\ threads = NoThreads
    /\ cycles = 0
    /\ steps = 0
    /\ instr = NoInstruction
    /\ call = NoCall

\* a Cpu::step whose instruction does not touch LCDC and costs c cycles
StepGpu(c) ==
    /\ status = "running"
    /\ cpu' = [cpu EXCEPT !.bus.gpu = GpuStep(cpu.bus.gpu, c)]
    /\ cycles' = c
    /\ UNCHANGED <<status, steps, instr, call, threads>>

\* a Cpu::step whose instruction stores value to 0xFF40 and costs c cycles
StepWriteLcdc(value, c) ==
    /\ status = "running"
    /\ \E w \in {WriteByte(cpu.bus, 65344, value)} :
          cpu' = [cpu EXCEPT !.bus = [w.bus EXCEPT
                                        !.gpu = GpuStep(w.bus.gpu, c)]]
    /\ cycles' = c
    /\ UNCHANGED <<status, steps, instr, call, threads>>

NextGpu ==
    \/ \E c \in StepCycles : StepGpu(c)
    \/ \E value \in LcdcValues, c \in StepCycles : StepWriteLcdc(value, c)

SpecGpu == InitGpu /\ [][NextGpu]_vars

\* the cycle counts of the steps of the runs followed forever
LiveStepCycles == {12, 24}

NextGpuLive ==
    \/ \E c \in LiveStepCycles : StepGpu(c)
    \/ \E value \in LcdcValues, c \in LiveStepCycles : StepWriteLcdc(value, c)

\* the inner loop of main calls cpu.step() again and again
SpecGpuLive == InitGpu /\ [][NextGpuLive]_vars /\ WF_vars(NextGpuLive)

----------------------------------------------------------------------------
(* SpecIrq: the interrupt registers of the bus, written through 0xFF0F and *)
(* 0xFFFF and consumed by pop_interrupt_handler_address.                   *)

\* bytes from_bits accepts for IF and IE
InterruptBytes == 0..31

InitIrq ==
    /\ cpu = NewCpu(EmptyRom, FALSE)
    /\ status = "running"
    /\ threads = NoThreads
    /\ cycles = 0
    /\ steps = 0
    /\ instr = NoInstruction
    /\ call = NoCall

\* write_byte(0xFF0F, value) or write_byte(0xFFFF, value)
WriteInterruptRegister(address, value) ==
    /\ status = "running"
    /\ \E w \in {WriteByte(cpu.bus, address, value)} :
          /\ cpu' = [cpu EXCEPT !.bus = w.bus]
          /\ status' = IF w.panic THEN "panicked" ELSE "running"
    /\ call' = [op |-> "write_byte", arg |-> value, ret |-> 0]
    /\ UNCHANGED <<cycles, steps, instr, threads>>

\* bus.pop_interrupt_handler_address()
PopInterrupt ==
    /\ status = "running"
    /\ \E r \in {PopInterruptHandlerAddress(cpu.bus)} :
          /\ cpu' = [cpu EXCEPT !.bus = r.bus]
          /\ status' = IF r.panic THEN "panicked" ELSE "running"
          /\ call' = [op |-> "pop_interrupt_handler_address", arg |-> 0,
                      ret |-> r.val]
    /\ UNCHANGED <<cycles, steps, instr, threads>>

NextIrq ==
    \/ \E value \in InterruptBytes : WriteInterruptRegister(65295, value)
    \/ \E value \in InterruptBytes : WriteInterruptRegister(65535, value)
    \/ PopInterrupt

SpecIrq == InitIrq /\ [][NextIrq]_vars

----------------------------------------------------------------------------
(* SpecRegs: the register-pair accessors, each applied once to an input    *)
(* word drawn in the initial state.                                        *)

\* bytes the input words are built from
PairBytes == {0, 1, 15, 16, 52, 128, 240, 255}

InitRegs ==
    /\ \E regs \in {DefaultRegisters, PostBootRegisters} :
           cpu = [NewCpu(EmptyRom, FALSE) EXCEPT !.registers = regs]
    /\ status = "running"
    /\ threads = NoThreads
    /\ cycles = 0
    /\ steps = 0
    /\ instr = NoInstruction
    /\ \E hi \in PairBytes, lo \in PairBytes :
           call = [op |-> "input", arg |-> FromLeBytes(lo, hi), ret |-> 0]

\* set_bc(v) then bc()
SetBc ==
    /\ call.op = "input"
    /\ cpu' = [cpu EXCEPT !.registers = set_bc(cpu.registers, call.arg)]
    /\ call' = [call EXCEPT !.op = "set_bc", !.ret = bc(cpu'.registers)]
    /\ UNCHANGED <<status, cycles, steps, instr, threads>>

\* set_de(v) then de()
SetDe ==
    /\ call.op = "input"
    /\ cpu' = [cpu EXCEPT !.registers = set_de(cpu.registers, call.arg)]
    /\ call' = [call EXCEPT !.op = "set_de", !.ret = de(cpu'.registers)]
    /\ UNCHANGED <<status, cycles, steps, instr, threads>>

\* set_hl(v) then hl()
SetHl ==
    /\ call.op = "input"
    /\ cpu' = [cpu EXCEPT !.registers = set_hl(cpu.registers, call.arg)]
    /\ call' = [call EXCEPT !.op = "set_hl", !.ret = hl(cpu'.registers)]
    /\ UNCHANGED <<status, cycles, steps, instr, threads>>

\* set_af(v) then, unless set_af panicked, af()
SetAf ==
    /\ call.op = "input"
    /\ \E r \in {set_af(cpu.registers, call.arg)} :
          /\ cpu' = [cpu EXCEPT !.registers = r.regs]
          /\ status' = IF r.panic THEN "panicked" ELSE "running"
          /\ call' = [call EXCEPT !.op = "set_af",
                                  !.ret = IF r.panic THEN 0 ELSE af(r.regs)]
    /\ UNCHANGED <<cycles, steps, instr, threads>>

NextRegs == SetBc \/ SetDe \/ SetHl \/ SetAf

SpecRegs == InitRegs /\ [][NextRegs]_vars

----------------------------------------------------------------------------
(* SpecOp: one instruction of every opcode.  The cartridge holds, at the   *)
(* entry point 0x0100, a one-byte prefix that leaves the flags set (NOP)   *)
(* or clears them (OR A), then the instruction with its operand bytes; the *)
(* rest of the ROM is zero.  The loop steps as in Spec.                    *)

\* operand bytes <<b1, b2>> of the instruction: 0xC000, 0x00FB (offset -5),
\* 0xFFFF and 0xFEA0 as a16; 0x00, 0xFB, 0xFF and 0xA0 as d8
OperandPairs == {<<0, 192>>, <<251, 0>>, <<255, 255>>, <<160, 254>>}

\* NOP, and OR A
FlagPrefixes == {<<0>>, <<183>>}

\* the game_rom slice: prefix and instruction from 0x0100
OpRom(prefix, b0, b1, b2) ==
    [address \in 256..(255 + Len(prefix) + 3) |->
        (prefix \o <<b0, b1, b2>>)[address - 255]]

InitOp ==
    /\ \E prefix \in FlagPrefixes, b0 \in 0..255, b1 \in 0..255,
          b2 \in {0, 192, 254, 255}, checks \in BOOLEAN :
          /\ \/ b0 = 203 /\ b2 = 0
             \/ b0 # 203 /\ <<b1, b2>> \in OperandPairs
          /\ cpu = [NewCpu(OpRom(prefix, b0, b1, b2), FALSE)
                      EXCEPT !.bus.overflow_checks = checks]
    /\ status = "running"
    /\ threads = NoThreads
    /\ cycles = 0
    /\ steps = 0
    /\ instr = NoInstruction
    /\ call = NoCall

SpecOp == InitOp /\ [][Next]_vars

----------------------------------------------------------------------------
(* SpecBus: the memory bus under direct read_byte and write_byte calls,    *)
(* built with a boot ROM and a cartridge.                                  *)

\* the 256 bytes of the boot ROM
BootRom == [address \in 0..255 |-> (address + 49) % 256]

\* the cartridge: a byte in the boot window, in bank 0 and in bank N
CartRom == [address \in {0, 256, 16384} |-> 195]

\* addresses called: 0x0000, 0x0100, 0x4000 (ROM), 0xC000, 0xDDFF, 0xDFFF
\* (WRAM), 0xE000, 0xFDFF (echo), 0xFEA0, 0xFEFF (unmapped), 0xFF03 (I/O page,
\* no register), 0xFF50
BusAddresses ==
    {0, 256, 16384, 49152, 56831, 57343, 57344, 65023, 65184, 65279, 65283,
     65360}

\* bytes written
BusValues == {85, 254}

InitBus ==
    /\ cpu = NewCpuWithBootRom(BootRom, CartRom, FALSE)
    /\ status = "running"
    /\ threads = NoThreads
    /\ cycles = 0
    /\ steps = 0
    /\ instr = NoInstruction
    /\ call = NoCall

\* bus.write_byte(address, value)
BusWrite(address, value) ==
    /\ status = "running"
    /\ \E w \in {WriteByte(cpu.bus, address, value)} :
          /\ cpu' = [cpu EXCEPT !.bus = w.bus]
          /\ status' = IF w.panic THEN "panicked" ELSE "running"
    /\ call' = [op |-> "write_byte", arg |-> address, ret |-> value]
    /\ UNCHANGED <<cycles, steps, instr, threads>>

\* bus.read_byte(address)
BusRead(address) ==
    /\ status = "running"
    /\ \E r \in {ReadByte(cpu.bus, address)} :
          /\ status' = IF r.panic THEN "panicked" ELSE "running"
          /\ call' = [op |-> "read_byte", arg |-> address, ret |-> r.val]
    /\ UNCHANGED <<cpu, cycles, steps, instr, threads>>

NextBus ==
    \/ \E address \in BusAddresses, value \in BusValues :
          BusWrite(address, value)
    \/ \E address \in BusAddresses : BusRead(address)

SpecBus == InitBus /\ [][NextBus]_vars

----------------------------------------------------------------------------
(* SpecVram: write_byte calls into video RAM, which keep the tile cache.   *)

\* addresses written: 0x8000, 0x8001 (tile 0, row 0), 0x8012, 0x8013 (tile 1,
\* row 1), 0x97FF (last byte of the tile data), 0x9800 (first byte after it)
VramAddresses == {32768, 32769, 32786, 32787, 38911, 38912}

\* bytes written
VramValues == {0, 133, 255}

InitVram ==
    /\ cpu = NewCpuWithBootRom(BootRom, CartRom, FALSE)
    /\ status = "running"
    /\ threads = NoThreads
    /\ cycles = 0
    /\ steps = 0
    /\ instr = NoInstruction
    /\ call = NoCall

\* bus.write_byte(address, value) with address in video RAM
VramWrite(address, value) ==
    /\ status = "running"
    /\ \E w \in {WriteByte(cpu.bus, address, value)} :
          /\ cpu' = [cpu EXCEPT !.bus = w.bus]
          /\ status' = IF w.panic THEN "panicked" ELSE "running"
    /\ call' = [op |-> "write_byte", arg |-> address, ret |-> value]
    /\ UNCHANGED <<cycles, steps, instr, threads>>

NextVram ==
    \E address \in VramAddresses, value \in VramValues :
        VramWrite(address, value)

SpecVram == InitVram /\ [][NextVram]_vars

----------------------------------------------------------------------------
(* SpecTimer: Timer::step called directly on the bus's timer, after TAC,   *)
(* TIMA and TMA were written through the bus.  Here cycles is the total of *)
(* the T-cycles passed to Timer::step so far.                              *)

\* TAC written: stopped (two clock selects) and running at each of the four
TacValues == {0, 3, 4, 5, 6, 7}

\* TIMA and TMA written
TimaValues == {0, 250}
TmaValues == {0, 254}

\* cycles passed to one Timer::step
TimerStepCycles == {4, 12, 20, 252}

\* the calls stop once this many T-cycles were passed in
MaxTimerCycles == 1100

InitTimer ==
    /\ \E tac \in TacValues, tima \in TimaValues, tma \in TmaValues :
         \E b1 \in {WriteByte(NewCpu(EmptyRom, FALSE).bus, 65287, tac).bus} :
         \E b2 \in {WriteByte(b1, 65285, tima).bus} :
         \E b3 \in {WriteByte(b2, 65286, tma).bus} :
            cpu = [NewCpu(EmptyRom, FALSE) EXCEPT !.bus = b3]
    /\ status = "running"
    /\ threads = NoThreads
    /\ cycles = 0
    /\ steps = 0
    /\ instr = NoInstruction
    /\ call = NoCall

\* did_overflow = bus.timer.step(c)
TimerStepCall(c) ==
    /\ status = "running"
    /\ cycles + c <= MaxTimerCycles
    /\ \E r \in {TimerStep(cpu.bus.timer, c)} :
          /\ cpu' = [cpu EXCEPT !.bus.timer = r.timer]
          /\ call' = [op |-> "Timer::step", arg |-> c, ret |-> r.did_overflow]
    /\ cycles' = cycles + c
    /\ UNCHANGED <<status, steps, instr, threads>>

NextTimer == \E c \in TimerStepCycles : TimerStepCall(c)

SpecTimer == InitTimer /\ [][NextTimer]_vars

----------------------------------------------------------------------------
(* SpecJoy: the joypad register 0xFF00 written and read through the bus,   *)
(* from the power-on joypad.                                               *)

\* address of the joypad register
JoypadRegister == 65280

\* bytes written to the joypad register
JoypadValues == 0..255

InitJoy ==
    /\ cpu = NewCpu(EmptyRom, FALSE)
    /\ status = "running"
    /\ threads = NoThreads
    /\ cycles = 0
    /\ steps = 0
    /\ instr = NoInstruction
    /\ call = NoCall

NextJoy ==
    \/ \E value \in JoypadValues : BusWrite(JoypadRegister, value)
    \/ BusRead(JoypadRegister)

SpecJoy == InitJoy /\ [][NextJoy]_vars

----------------------------------------------------------------------------
(* SpecInstr: one Cpu::step of one instruction at the entry point 0x0100,  *)
(* from a register file, stack pointer and operand drawn in the initial    *)
(* state (any A and F can be loaded with POP AF, any SP with LD SP,d16);   *)
(* call keeps the operand value and the stack pointer drawn.               *)

\* the F bytes Flags::from_bits accepts
FlagBytes == {16 * n : n \in 0..15}

\* stack pointers the SP arithmetic is run from
SpValues == {0, 1, 15, 255, 256, 4095, 65528, 65535}

\* the cartridge holding code at 0x0100
InstrRom(code) ==
    [address \in 256..(255 + Len(code)) |-> code[address - 255]]

\* LD A,(BC) with BC in ROM, WRAM, OAM, the unmapped range, the I/O page and
\* HRAM
LdInputs ==
    {[code |-> <<10>>,
      registers |-> [PostBootRegisters EXCEPT !.a = a, !.b = b, !.c = c],
      sp |-> 65534, target |-> "A", value |-> a] :
       a \in {0, 90}, b \in {1, 192, 254, 255}, c \in {0, 3, 68, 160}}

\* ADD SP,e8 (0xE8) and LD HL,SP+e8 (0xF8) for every e8
AddSpInputs ==
    {[code |-> <<op, e8>>, registers |-> [PostBootRegisters EXCEPT !.f = f],
      sp |-> sp, target |-> "A", value |-> 1] :
       op \in {232, 248}, e8 \in 0..255, sp \in SpValues, f \in {0, 240}}

\* DAA (0x27) for every A and every F
DaaInputs ==
    {[code |-> <<39>>, registers |-> [PostBootRegisters EXCEPT !.f = f],
      sp |-> 65534, target |-> "A", value |-> a] :
       a \in 0..255, f \in FlagBytes}

\* RLA (0x17), RRA (0x1F), RL r (CB 10-17) and RR r (CB 18-1F) for every
\* operand value, with HL pointing into work RAM
RotInputs ==
    {[code |-> code,
      registers |-> [PostBootRegisters EXCEPT !.f = f, !.h = 192, !.l = 0],
      sp |-> 65534,
      target |-> IF Len(code) = 1 THEN "A" ELSE RegisterName(code[2] % 8),
      value |-> v] :
       code \in {<<23>>, <<31>>} \cup {<<203, 16 + n>> : n \in 0..15},
       v \in 0..255, f \in {0, 16, 224, 240}}

InitInstr ==
    /\ \E input \in LdInputs \cup AddSpInputs \cup DaaInputs \cup RotInputs :
         /\ cpu = WriteRegister(
                     [NewCpu(InstrRom(input.code), FALSE) EXCEPT
                        !.registers = input.registers, !.sp = input.sp],
                     input.target, input.value).cpu
         /\ call = [op |-> "input", arg |-> input.value, ret |-> input.sp]
    /\ status = "running"
    /\ threads = NoThreads
    /\ cycles = 0
    /\ steps = 0
    /\ instr = NoInstruction

\* the one Cpu::step
StepInstr == steps = 0 /\ Step

NextInstr == StepInstr

SpecInstr == InitInstr /\ [][NextInstr]_vars

----------------------------------------------------------------------------
(* SpecFrame: the two threads of main around the shared framebuffer.  The  *)
(* buffer is FrameCells cells; a cell holds the number of the copy that    *)
(* wrote it (0: the initial zeros).  copy_from_slice and clone move one    *)
(* cell per step, so a copy and a clone that overlapped would show.        *)

\* cells of the framebuffer
FrameCells == 2

\* copies the emulation thread makes before it is no longer followed
MaxCopies == 3

\* vec![0; WIDTH * HEIGHT * 3]
ZeroFrame == [i \in 1..FrameCells |-> 0]

\* main before either thread has run: Arc::new(Mutex::new(vec![0; ..]))
NewThreads ==
    [lock |-> "free", shared |-> ZeroFrame,
     emu_pc |-> "step", emu_i |-> 1, copies |-> 0,
     gui_pc |-> "lock", gui_i |-> 1, local |-> ZeroFrame,
     blitted |-> ZeroFrame, blits |-> 0]

LockAlwaysFree(t) == TRUE

\* Mutex::lock returns once no thread holds the guard
LockFree(t) == t.lock = "free"

InitFrame ==
    /\ cpu = NewCpu(EmptyRom, FALSE)
    /\ status = "running"
    /\ threads = NewThreads
    /\ cycles = 0
    /\ steps = 0
    /\ instr = NoInstruction
    /\ call = NoCall

\* emulation thread: a cpu.step() after which the GPU has just entered HBlank
EmuEnterHBlank ==
    /\ threads.emu_pc = "step"
    /\ threads.copies < MaxCopies
    /\ threads' = [threads EXCEPT !.emu_pc = "lock"]
    /\ UNCHANGED <<cpu, status, cycles, steps, instr, call>>

\* emulation thread: a cpu.step() that panics ends the thread (no guard held)
EmuPanic ==
    /\ threads.emu_pc = "step"
    /\ threads' = [threads EXCEPT !.emu_pc = "dead"]
    /\ UNCHANGED <<cpu, status, cycles, steps, instr, call>>

\* emulation thread: let mut buffer = buffer.lock().unwrap()
EmuLock ==
    /\ threads.emu_pc = "lock"
    /\ LockFree(threads)
    /\ threads' = [threads EXCEPT !.lock = "emu", !.emu_pc = "copy",
                                  !.emu_i = 1]
    /\ UNCHANGED <<cpu, status, cycles, steps, instr, call>>

\* emulation thread: buffer.copy_from_slice(..), one cell
EmuCopyCell ==
    /\ threads.emu_pc = "copy"
    /\ threads.emu_i <= FrameCells
    /\ threads' = [threads EXCEPT
                     !.shared[threads.emu_i] = threads.copies + 1,
                     !.emu_i = threads.emu_i + 1]
    /\ UNCHANGED <<cpu, status, cycles, steps, instr, call>>

\* emulation thread: the guard is dropped at the end of the if block
EmuUnlock ==
    /\ threads.emu_pc = "copy"
    /\ threads.emu_i > FrameCells
    /\ threads' = [threads EXCEPT !.lock = "free", !.emu_pc = "step",
                                  !.copies = threads.copies + 1]
    /\ UNCHANGED <<cpu, status, cycles, steps, instr, call>>

\* presentation thread: gui_buffer.lock().unwrap()
GuiLock ==
    /\ threads.gui_pc = "lock"
    /\ LockFree(threads)
    /\ threads' = [threads EXCEPT !.lock = "gui", !.gui_pc = "clone",
                                  !.gui_i = 1]
    /\ UNCHANGED <<cpu, status, cycles, steps, instr, call>>

\* presentation thread: .clone(), one cell
GuiCloneCell ==
    /\ threads.gui_pc = "clone"
    /\ threads.gui_i <= FrameCells
    /\ threads' = [threads EXCEPT
                     !.local[threads.gui_i] = threads.shared[threads.gui_i],
                     !.gui_i = threads.gui_i + 1]
    /\ UNCHANGED <<cpu, status, cycles, steps, instr, call>>

\* presentation thread: the temporary guard is dropped
GuiUnlock ==
    /\ threads.gui_pc = "clone"
    /\ threads.gui_i > FrameCells
    /\ threads' = [threads EXCEPT !.lock = "free", !.gui_pc = "blit"]
    /\ UNCHANGED <<cpu, status, cycles, steps, instr, call>>

\* presentation thread: window.update_with_buffer(&buffer, WIDTH, HEIGHT)
GuiBlit ==
    /\ threads.gui_pc = "blit"
    /\ threads' = [threads EXCEPT !.blitted = threads.local,
                                  !.blits = 1, !.gui_pc = "lock"]
    /\ UNCHANGED <<cpu, status, cycles, steps, instr, call>>

\* presentation thread: the window was closed or Escape is down
GuiClose ==
    /\ threads.gui_pc = "lock"
    /\ threads' = [threads EXCEPT !.gui_pc = "closed"]
    /\ UNCHANGED <<cpu, status, cycles, steps, instr, call>>

NextFrame ==
    \/ EmuEnterHBlank
    \/ EmuPanic
    \/ EmuLock
    \/ EmuCopyCell
    \/ EmuUnlock
    \/ GuiLock
    \/ GuiCloneCell
    \/ GuiUnlock
    \/ GuiBlit
    \/ GuiClose

SpecFrame == InitFrame /\ [][NextFrame]_vars

----------------------------------------------------------------------------
(* SpecStack: PUSH rr followed by POP rr at the entry point 0x0100, from a *)
(* stack pointer and a pushed word drawn in the initial state; call keeps  *)
(* the word and the stack pointer drawn.                                   *)

\* stack pointers: the stack bytes in work RAM, external RAM, echo RAM,
\* OAM, video RAM and HRAM, across their borders, and outside RAM (the I/O
\* page, IE, ROM and the unmapped range)
StackPointers ==
    {49154, 49153, 53248, 57344, 57346, 65024, 65026, 40962, 32770, 38914,
     65410, 65534, 65535, 65409, 0, 1, 258, 65186}

\* words pushed
StackWords == {0, 4660, 44016, 255, 65280, 65535}

\* PUSH BC/DE/HL/AF are 0xC5/D5/E5/F5 and POP BC/DE/HL/AF 0xC1/D1/E1/F1; F
\* only ever holds a byte Flags::from_bits accepts
StackInputs ==
    UNION {
      {[code |-> <<197 + 16 * source, 193 + 16 * target>>,
        registers |->
            CASE source = 0 -> set_bc(PostBootRegisters, v)
              [] source = 1 -> set_de(PostBootRegisters, v)
              [] source = 2 -> set_hl(PostBootRegisters, v)
              [] source = 3 -> [PostBootRegisters EXCEPT
                                  !.a = v \div 256, !.f = v % 256],
        sp |-> sp, value |-> v] :
         target \in 0..3, sp \in StackPointers,
         v \in {w \in StackWords : source # 3 \/ (w % 256) \in FlagBytes}} :
      source \in 0..3 }

InitStack ==
    /\ \E input \in StackInputs :
         /\ cpu = [NewCpu(InstrRom(input.code), FALSE) EXCEPT
                      !.registers = input.registers, !.sp = input.sp]
         /\ call = [op |-> "input", arg |-> input.value, ret |-> input.sp]
    /\ status = "running"
    /\ threads = NoThreads
    /\ cycles = 0
    /\ steps = 0
    /\ instr = NoInstruction

\* the two Cpu::step calls
StepStack == steps < 2 /\ Step

NextStack == StepStack

SpecStack == InitStack /\ [][NextStack]_vars

----------------------------------------------------------------------------
(* SpecRender: Gpu::step with the framebuffer followed.  The gpu record    *)
(* carries buffer, the rows of the framebuffer written so far (every other *)
(* byte is still 0) as RGB triples; the program fills video RAM and       *)
(* stores SCY, SCX, BGP and LCDC before the display runs.                  *)

WIDTH == 160

VRAM_SIZE == 8192

\* a row of the framebuffer of Gpu::default()
ZeroRow == [x \in 0..(WIDTH - 1) |-> <<0, 0, 0>>]

\* row line of the framebuffer
BufferRow(buffer, line) ==
    IF line \in DOMAIN buffer THEN buffer[line] ELSE ZeroRow

\* lookup_colour of render_line: the two palette bits at pixel * 2 and
\* pixel * 2 + 1 (Lsb0), joined as value[0] << 1 | value[1]
LookupColour(background_colours, pixel) ==
    CASE 2 * Bit(background_colours, 2 * pixel)
           + Bit(background_colours, 2 * pixel + 1) = 0 -> <<255, 255, 255>>
      [] 2 * Bit(background_colours, 2 * pixel)
           + Bit(background_colours, 2 * pixel + 1) = 1 -> <<170, 170, 170>>
      [] 2 * Bit(background_colours, 2 * pixel)
           + Bit(background_colours, 2 * pixel + 1) = 2 -> <<85, 85, 85>>
      [] OTHER -> <<0, 0, 0>>

\* LCDExt::bg_tilemap_address
BgTilemapAddress(lcd_control) ==
    IF Bit(lcd_control, 3) = 1 THEN 39936 ELSE 38912

\* where render_line starts reading tile numbers:
\* background_tile_map - VRAM_BEGIN + offset + tile_x_coordinate
RenderStart(g) ==
    BgTilemapAddress(g.lcd_control) - 32768
    + 32 * (Wrap8(g.line + g.scroll_y) \div 8) + (g.scroll_x \div 8)

\* the k-th pixel of the iterator of render_line before its skip: pixel
\* k % 8 of row tile_y_coordinate % 8 of the tile whose number is k / 8
\* bytes after the start
RenderPixel(bus, k) ==
    GetTile(TileSetRow(bus.gpu.tile_set,
                       MemGet(bus.mem, 32768 + RenderStart(bus.gpu) + (k \div 8)),
                       Wrap8(bus.gpu.line + bus.gpu.scroll_y) % 8),
            k % 8)

\* Gpu::render_line: the pixels of the tiles from the start to the end of
\* vram, less the first scroll_x % 8, zipped with the WIDTH pixels of row
\* line of the buffer; pixels the iterator does not reach keep their bytes
RenderLine(bus) ==
    [bus EXCEPT !.gpu.buffer =
        MemSet(bus.gpu.buffer, bus.gpu.line,
               [x \in 0..(WIDTH - 1) |->
                   IF RenderStart(bus.gpu) + (x + (bus.gpu.scroll_x % 8)) \div 8
                        < VRAM_SIZE
                   THEN LookupColour(bus.gpu.background_colours,
                                     RenderPixel(bus,
                                                 x + (bus.gpu.scroll_x % 8)))
                   ELSE BufferRow(bus.gpu.buffer, bus.gpu.line)[x]])]

\* Gpu::step(cycles) with the render_line call of its Drawing arm
GpuStepRendering(bus, c) ==
    Only({ IF g.rendered = NoLine THEN [bus EXCEPT !.gpu = g]
           ELSE RenderLine([bus EXCEPT !.gpu = g]) :
           g \in {GpuStep(bus.gpu, c)} })

\* the bytes the program stores to video RAM.  Tile data: tile 1 row 0 has the
\* colours 0,0,2,2,1,1,3,3, row 1 colour 1 and row 7 colour 3; tile 2 row 0
\* colour 1, row 7 colour 2; tile 5 row 0 colour 2, row 7 colour 1; tile 130
\* row 0 colours 1,0,1,0,..., row 7 colour 3; tile 261 row 0 colour 3, row 7
\* colours 1,1,1,1,0,0,0,0.  Tile maps: 0x9800 row 0 = 1, 5, 130 at columns
\* 0..2 and 2 at column 13; row 1 = 2 at column 0 and 5 at column 1; row 31 =
\* 1 at column 0, 5 at column 31; 0x9C00 row 0 = 5 at column 0, 130 at
\* column 1; row 31 = 1 at column 0 and 2 at column 31.
VramWrites ==
    << <<32784, 15>>, <<32785, 51>>, <<32786, 255>>, <<32798, 255>>,
       <<32799, 255>>,
       <<32800, 255>>, <<32815, 255>>,
       <<32849, 255>>, <<32862, 255>>,
       <<34848, 170>>, <<34862, 255>>, <<34863, 255>>,
       <<36944, 255>>, <<36945, 255>>, <<36958, 240>>,
       <<38912, 1>>, <<38913, 5>>, <<38914, 130>>, <<38925, 2>>,
       <<38944, 2>>, <<38945, 5>>,
       <<39904, 1>>, <<39935, 5>>,
       <<39936, 5>>, <<39937, 130>>,
       <<40928, 1>>, <<40959, 2>> >>

\* SCY, SCX, BGP and LCDC (display on, both tile maps, both tile data
\* areas) the program stores
ScyValues == {6, 247, 254, 255}

ScxValues == {0, 3, 8, 96, 100, 255}

BgpValues == {228, 252, 27}

RenderLcdcValues == {145, 129, 153, 137}

\* cycle counts of the steps delivered to the GPU
RenderStepCycles == {12, 24}

\* the run is followed until LY reaches RenderLines (the first HBlank of
\* Gpu::default() ends row 0 unrendered, so rows 1 and 2 are rendered)
RenderLines == 3

\* the gpu with its buffer field, all bytes 0 as in Gpu::default()
WithBuffer(g) ==
    [cycles |-> g.cycles, line |-> g.line, mode |-> g.mode,
     lcd_control |-> g.lcd_control,
     background_colours |-> g.background_colours, scroll_y |-> g.scroll_y,
     scroll_x |-> g.scroll_x, tile_set |-> g.tile_set,
     rendered |-> g.rendered, buffer |-> <<>>]

InitRender ==
    /\ \E bus \in {NewCpu(EmptyRom, FALSE).bus} :
         cpu = [NewCpu(EmptyRom, FALSE) EXCEPT
                  !.bus = [bus EXCEPT !.gpu = WithBuffer(bus.gpu)]]
    /\ status = "running"
    /\ threads = NoThreads
    /\ cycles = 0
    /\ steps = 0
    /\ instr = NoInstruction
    /\ call = NoCall

\* the program stores the next byte of VramWrites (the display is off)
FillVram ==
    /\ status = "running"
    /\ steps < Len(VramWrites)
    /\ \E w \in {WriteByte(cpu.bus, VramWrites[steps + 1][1],
                           VramWrites[steps + 1][2])} :
         cpu' = [cpu EXCEPT !.bus = w.bus]
    /\ steps' = steps + 1
    /\ UNCHANGED <<status, cycles, instr, call, threads>>

\* the program stores SCY, SCX and BGP and turns the display on
StoreRegisters(scy, scx, bgp, lcdc) ==
    /\ status = "running"
    /\ steps = Len(VramWrites)
    /\ \E w1 \in {WriteByte(cpu.bus, 65346, scy)} :
        \E w2 \in {WriteByte(w1.bus, 65347, scx)} :
         \E w3 \in {WriteByte(w2.bus, 65351, bgp)} :
          \E w4 \in {WriteByte(w3.bus, 65344, lcdc)} :
            cpu' = [cpu EXCEPT !.bus = w4.bus]
    /\ steps' = steps + 1
    /\ UNCHANGED <<status, cycles, instr, call, threads>>

\* a Cpu::step that costs c cycles and leaves the GPU registers alone
StepRender(c) ==
    /\ status = "running"
    /\ steps > Len(VramWrites)
    /\ cpu.bus.gpu.line < RenderLines
    /\ cpu' = [cpu EXCEPT !.bus = GpuStepRendering(cpu.bus, c)]
    /\ cycles' = c
    /\ UNCHANGED <<status, steps, instr, call, threads>>

NextRender ==
    \/ FillVram
    \/ \E scy \in ScyValues, scx \in ScxValues, bgp \in BgpValues,
          lcdc \in RenderLcdcValues : StoreRegisters(scy, scx, bgp, lcdc)
    \/ \E c \in RenderStepCycles : StepRender(c)

SpecRender == InitRender /\ [][NextRender]_vars

----------------------------------------------------------------------------
(* SpecLoop: the inner loop of the emulation thread of main.rs around      *)
(* cpu.step(), with the GPU and its framebuffer followed.  threads holds   *)
(* the loop's last_mode, the shared buffer and the number of copies made.  *)

\* copies after which the loop is no longer followed
MaxLoopCopies == 3

\* let mut last_mode = cpu.bus.gpu.mode, before the first iteration
NewLoop(c) ==
    [lock |-> "free", shared |-> <<>>, last_mode |-> c.bus.gpu.mode,
     copies |-> 0]

InitLoop ==
    /\ \E bus \in {NewCpu(EmptyRom, FALSE).bus} :
         cpu = [NewCpu(EmptyRom, FALSE) EXCEPT
                  !.bus = [bus EXCEPT !.gpu = WithBuffer(bus.gpu)]]
    /\ status = "running"
    /\ threads = NewLoop(NewCpu(EmptyRom, FALSE))
    /\ cycles = 0
    /\ steps = 0
    /\ instr = NoInstruction
    /\ call = NoCall

AfterStepComparesWithVBlank(t, bus) ==
    IF bus.gpu.mode = "HBlank" /\ t.last_mode # "VBlank"
    THEN [t EXCEPT !.shared = bus.gpu.buffer, !.copies = t.copies + 1,
                   !.last_mode = bus.gpu.mode]
    ELSE [t EXCEPT !.last_mode = bus.gpu.mode]

\* the rest of an iteration after cpu.step() left the bus as bus: the copy
\* under the lock when the mode is HBlank and last_mode is not, then
\* last_mode = cpu.bus.gpu.mode
AfterStep(t, bus) ==
    IF bus.gpu.mode = "HBlank" /\ t.last_mode # "HBlank"
    THEN [t EXCEPT !.shared = bus.gpu.buffer, !.copies = t.copies + 1,
                   !.last_mode = bus.gpu.mode]
    ELSE [t EXCEPT !.last_mode = bus.gpu.mode]

\* an iteration whose instruction costs c cycles and leaves LCDC alone
LoopStep(c) ==
    /\ status = "running"
    /\ threads.copies < MaxLoopCopies
    /\ \E bus \in {GpuStepRendering(cpu.bus, c)} :
         /\ cpu' = [cpu EXCEPT !.bus = bus]
         /\ threads' = AfterStep(threads, bus)
    /\ cycles' = c
    /\ UNCHANGED <<status, steps, instr, call>>

\* an iteration whose instruction stores value to 0xFF40 and costs c cycles
LoopStepWriteLcdc(value, c) ==
    /\ status = "running"
    /\ threads.copies < MaxLoopCopies
    /\ \E w \in {WriteByte(cpu.bus, 65344, value)} :
         \E bus \in {GpuStepRendering(w.bus, c)} :
           /\ cpu' = [cpu EXCEPT !.bus = bus]
           /\ threads' = AfterStep(threads, bus)
    /\ cycles' = c
    /\ UNCHANGED <<status, steps, instr, call>>

\* an iteration whose cpu.step() panics ends the thread
LoopPanic ==
    /\ status = "running"
    /\ status' = "panicked"
    /\ UNCHANGED <<cpu, cycles, steps, instr, call, threads>>

NextLoop ==
    \/ \E c \in StepCycles : LoopStep(c)
    \/ \E value \in LcdcValues, c \in StepCycles : LoopStepWriteLcdc(value, c)
    \/ LoopPanic

SpecLoop == InitLoop /\ [][NextLoop]_vars

----------------------------------------------------------------------------
(* SpecBurst: the bursts of the emulation thread of main.rs: cpu.step()    *)
(* is called while cycles_elapsed < target_cycles, then the thread sleeps  *)
(* until the next frame.  cycles holds cycles_elapsed; of a step only its  *)
(* outcome is followed, which is any outcome Cpu::step has for any opcode. *)

cycles_per_second == 4190000

target_cycles == cycles_per_second \div 60

\* CPUs about to execute each first byte with four operand pairs, and each
\* CB-prefixed opcode, with every flag clear and every flag set
OutcomeCpus ==
    {[NewCpu(InstrRom(code), FALSE) EXCEPT !.registers.f = f] :
       code \in {<<b0, pair[1], pair[2]>> :
                   b0 \in 0..255 \ {203}, pair \in OperandPairs}
                \cup {<<203, b1, 0>> : b1 \in 0..255},
       f \in {0, 240}}

\* what Cpu::step does to the loop: the count it returns, or a panic
StepOutcomes ==
    {[cycles |-> r.cycles, panic |-> r.panic] :
       r \in {CpuStep(c) : c \in OutcomeCpus}}

InitBurst ==
    /\ cpu = NewCpu(EmptyRom, FALSE)
    /\ status = "running"
    /\ threads = NoThreads
    /\ cycles = 0
    /\ steps = 0
    /\ instr = NoInstruction
    /\ call = NoCall

\* let cycles = cpu.step(); cycles_elapsed += u32::from(cycles)
BurstStep(outcome) ==
    /\ status = "running"
    /\ cycles < target_cycles
    /\ ~outcome.panic
    /\ cycles' = cycles + outcome.cycles
    /\ call' = [op |-> "Cpu::step", arg |-> 0, ret |-> outcome.cycles]
    /\ UNCHANGED <<cpu, status, steps, instr, threads>>

\* a cpu.step() that panics ends the thread
BurstPanic(outcome) ==
    /\ status = "running"
    /\ cycles < target_cycles
    /\ outcome.panic
    /\ status' = "panicked"
    /\ UNCHANGED <<cpu, cycles, steps, instr, call, threads>>

\* the while loop is left: std::thread::sleep_until(next_frame)
BurstEnd ==
    /\ status = "running"
    /\ cycles >= target_cycles
    /\ status' = "sleeping"
    /\ UNCHANGED <<cpu, cycles, steps, instr, call, threads>>

\* the next pass of the outer loop: let mut cycles_elapsed = 0
BurstBegin ==
    /\ status = "sleeping"
    /\ status' = "running"
    /\ cycles' = 0
    /\ call' = NoCall
    /\ UNCHANGED <<cpu, steps, instr, threads>>

NextBurst ==
    \/ \E outcome \in StepOutcomes : BurstStep(outcome)
    \/ \E outcome \in StepOutcomes : BurstPanic(outcome)
    \/ BurstEnd
    \/ BurstBegin

\* the thread keeps running
SpecBurst == InitBurst /\ [][NextBurst]_vars /\ WF_vars(NextBurst)

----------------------------------------------------------------------------
(* SpecIrqWrite: a program storing any byte to IF (0xFF0F) and IE (0xFFFF). *)

\* stores after which the program is no longer followed
MaxIrqWrites == 2

InitIrqWrite ==
    /\ cpu = NewCpu(EmptyRom, FALSE)
    /\ status = "running"
    /\ threads = NoThreads
    /\ cycles = 0
    /\ steps = 0
    /\ instr = NoInstruction
    /\ call = NoCall

\* bus.write_byte(address, value)
IrqWrite(address, value) ==
    /\ status = "running"
    /\ steps < MaxIrqWrites
    /\ \E w \in {WriteByte(cpu.bus, address, value)} :
          /\ cpu' = [cpu EXCEPT !.bus = w.bus]
          /\ status' = IF w.panic THEN "panicked" ELSE "running"
    /\ call' = [op |-> "write_byte", arg |-> address, ret |-> value]
    /\ steps' = steps + 1
    /\ UNCHANGED <<cycles, instr, threads>>

NextIrqWrite ==
    \E address \in {65295, 65535}, value \in 0..255 : IrqWrite(address, value)

SpecIrqWrite == InitIrqWrite /\ [][NextIrqWrite]_vars

----------------------------------------------------------------------------
(* Claims.                                                                 *)

\* C1: a CPU step that begins with IME set and IE & IF # 0 executes no
\* instruction: it clears IME, clears the serviced interrupt's bit of IF,
\* pushes the current PC, sets PC to the interrupt vector and returns 20.
C1_InterruptServicedFirst ==
    [][ (cpu.interrupts_enabled /\ IsInterruptPending(cpu.bus)
         /\ steps' = steps + 1) =>
          \E k \in {TryGetFirstInterrupt(cpu.bus)} :
             /\ status' = "running"
             /\ ~cpu'.interrupts_enabled
             /\ cpu'.bus.interrupt_flag = ClearBit(cpu.bus.interrupt_flag, k)
             /\ cpu'.sp = Wrap16(cpu.sp + 65534)
             /\ ReadWord(cpu'.bus, cpu'.sp).val = cpu.pc
             /\ cpu'.pc = 64 + 8 * k
             /\ cpu'.registers = cpu.registers
             /\ cycles' = 20 ]_vars

\* C2: pop_interrupt_handler_address, called with IE & IF # 0, picks the
\* pending-and-enabled interrupt of lowest bit index (VBlank > LCD-STAT >
\* Timer > Serial > Joypad), returns its vector 0x40 + 8k, clears exactly that
\* bit of IF and leaves the other IF bits and IE unchanged.
C2_PopSelectsHighestPriority ==
    [][ (call'.op = "pop_interrupt_handler_address"
         /\ And8(cpu.bus.interrupt_enabled, cpu.bus.interrupt_flag) # 0) =>
          \E k \in 0..4 :
             /\ Bit(cpu.bus.interrupt_enabled, k) = 1
             /\ Bit(cpu.bus.interrupt_flag, k) = 1
             /\ \A j \in 0..(k - 1) :
                    ~(Bit(cpu.bus.interrupt_enabled, j) = 1
                      /\ Bit(cpu.bus.interrupt_flag, j) = 1)
             /\ status' = "running"
             /\ call'.ret = 64 + 8 * k
             /\ cpu'.bus.interrupt_flag = cpu.bus.interrupt_flag - Pow2(k)
             /\ cpu'.bus.interrupt_enabled = cpu.bus.interrupt_enabled ]_vars

\* C2 witness: the Timer vector was returned while Serial stays pending and
\* enabled and LCD-STAT stays pending but not enabled.
C2_Witness ==
    /\ call.op = "pop_interrupt_handler_address"
    /\ status = "running"
    /\ call.ret = 80
    /\ Bit(cpu.bus.interrupt_flag, 3) = 1
    /\ Bit(cpu.bus.interrupt_enabled, 3) = 1
    /\ Bit(cpu.bus.interrupt_flag, 1) = 1
    /\ Bit(cpu.bus.interrupt_enabled, 1) = 0

\* C3: the step that executes HALT (0x76) completes and leaves the CPU
\* halted, and every later step taken while IE & IF = 0 returns 4 cycles,
\* executes nothing and changes neither PC nor any register.
C3_HaltWaitsForInterrupt ==
    [][ (steps' = steps + 1) =>
          /\ (Fetched(cpu).op = "Halt"
              /\ ~(cpu.interrupts_enabled /\ IsInterruptPending(cpu.bus)))
               => (status' = "running" /\ instr'.op = "Halt")
          /\ (instr.op = "Halt" /\ ~IsInterruptPending(cpu.bus))
               => /\ status' = "running"
                  /\ cycles' = 4
                  /\ instr' = instr
                  /\ cpu'.pc = cpu.pc
                  /\ cpu'.registers = cpu.registers ]_vars

\* C4: the cycles every CPU step returns are delivered to Timer.step (the
\* divider accumulator advances by them), and when that delivery overflows
\* TIMA the Timer bit (bit 2) of IF is set when the step ends.
C4_TimerReceivesStepCycles ==
    [][ (steps' = steps + 1 /\ status' = "running") =>
          /\ cpu'.bus.timer.divider_counter =
                 Wrap8(cpu.bus.timer.divider_counter + cycles')
          /\ TimerStep(cpu.bus.timer, cycles').did_overflow
               => Bit(cpu'.bus.interrupt_flag, 2) = 1 ]_vars

\* C5: when an HBlank ends with LY becoming 144 the GPU enters VBlank and
\* the VBlank bit (bit 0) of IF is set by the end of that step.
C5_VBlankRequested ==
    [][ (cpu.bus.gpu.mode = "HBlank" /\ cpu.bus.gpu.line = 143
         /\ cpu'.bus.gpu.line = 144) =>
          /\ cpu'.bus.gpu.mode = "VBlank"
          /\ Bit(cpu'.bus.interrupt_flag, 0) = 1 ]_vars

\* first cycle of each phase within its 456-cycle line
PhaseStart(mode) ==
    CASE mode = "OamScan" -> 0
      [] mode = "Drawing" -> 80
      [] mode = "HBlank" -> 80 + 172
      [] mode = "VBlank" -> 0

PhaseLength(mode) ==
    CASE mode = "OamScan" -> 80
      [] mode = "Drawing" -> 172
      [] mode = "HBlank" -> 204
      [] mode = "VBlank" -> 456

\* T-cycles since the start of the frame that the GPU state stands for
ScanPosition(g) == g.line * 456 + PhaseStart(g.mode) + g.cycles

C7_VBlankTenLines ==
    [][ /\ (cpu.bus.gpu.mode # "VBlank" /\ cpu'.bus.gpu.mode = "VBlank")
             => cpu'.bus.gpu.line = 144
        /\ (cpu.bus.gpu.mode = "VBlank"
            /\ DisplayEnabled(cpu'.bus.gpu.lcd_control)
            /\ cycles' \in StepCycles) =>
               /\ cpu.bus.gpu.line \in 144..153
               /\ cpu'.bus.gpu.rendered = NoLine
               /\ \/ /\ cpu'.bus.gpu.mode = "VBlank"
                     /\ cpu'.bus.gpu.line \in 144..153
                     /\ ScanPosition(cpu'.bus.gpu) =
                            ScanPosition(cpu.bus.gpu) + cycles'
                  \/ /\ cpu'.bus.gpu.mode = "OamScan"
                     /\ cpu'.bus.gpu.line = 0
                     /\ cpu'.bus.gpu.cycles + (144 + 10) * 456 =
                            ScanPosition(cpu.bus.gpu) + cycles' ]_vars

\* C7 witness: OAM-scan of line 0 entered from VBlank (power-on starts line 0
\* in HBlank, so OAM-scan at LY 0 is reached only through a whole VBlank),
\* with cycles carried over the wrap.
C7_Witness ==
    /\ cpu.bus.gpu.mode = "OamScan"
    /\ cpu.bus.gpu.line = 0
    /\ cpu.bus.gpu.cycles = 8
    /\ cycles = 12

\* C8: when LCDC.LCDEnable goes from clear to set, LY is 0 once the step
\* that set it has run the GPU.
C8_LyZeroOnEnable ==
    [][ (~DisplayEnabled(cpu.bus.gpu.lcd_control)
         /\ DisplayEnabled(cpu'.bus.gpu.lcd_control))
          => cpu'.bus.gpu.line = 0 ]_vars

\* C9: the low nibble of F is 0 in every state, and POP AF completes
\* whatever word is on the stack.
C9_FLowNibbleZero ==
    /\ cpu.registers.f % 16 = 0
    /\ (instr.op = "Pop" /\ instr.target = "AF") => status = "running"

\* C10: set_bc, set_de, set_hl of v followed by the matching read return v
\* with the high byte in B/D/H and the low byte in C/E/L; set_af(v) followed
\* by af() returns v & 0xFFF0.
C10_PairRoundTrip ==
    /\ call.op = "set_bc" =>
         /\ call.ret = call.arg
         /\ cpu.registers.b = call.arg \div 256
         /\ cpu.registers.c = call.arg % 256
    /\ call.op = "set_de" =>
         /\ call.ret = call.arg
         /\ cpu.registers.d = call.arg \div 256
         /\ cpu.registers.e = call.arg % 256
    /\ call.op = "set_hl" =>
         /\ call.ret = call.arg
         /\ cpu.registers.h = call.arg \div 256
         /\ cpu.registers.l = call.arg % 256
    /\ call.op = "set_af" =>
         /\ status = "running"
         /\ call.ret = call.arg - (call.arg % 16)

\* the instruction of the last step transfers control: a jump, call or
\* return whose condition held in the state the step began in
Taken(c, ins) ==
    /\ ins.op \in {"JR", "JP", "Call", "Ret"}
    /\ MatchJumpCondition(c, ins.target)

\* C11: a step that executes a non-jump instruction, or a conditional JR, JP,
\* CALL or RET whose condition does not hold, leaves PC at the PC before the
\* step plus the number of bytes the decoder consumed, modulo 2^16.
C11_PcAdvancesByLength ==
    [][ (steps' = steps + 1 /\ status' = "running" /\ ~Taken(cpu, instr'))
          => cpu'.pc = (cpu.pc + instr'.len) % 65536 ]_vars

\* C11 witness: the NOP read at 0xFFFF (the byte of IE) was executed and PC
\* wrapped to 0x0000.
C11_Witness ==
    /\ status = "running"
    /\ instr.op = "Nop"
    /\ instr.len = 1
    /\ cpu.pc = 0
    /\ steps = 3

\* T-cycles of the SM83 timing table for an instruction, on the branch taken
CanonicalCycles(ins, taken) ==
    CASE ins.op \in {"Nop", "Di", "Ei", "Rla", "Rra", "Daa"} -> 4
      [] ins.op = "LdByte" ->
           IF ins.target = "(HL)" /\ ins.source = "Immediate" THEN 12
           ELSE IF ins.target = "(HL)" \/ ins.source \in {"(HL)", "Immediate"}
                THEN 8 ELSE 4
      [] ins.op = "LdIndirect" -> IF ins.target = "Immediate" THEN 16 ELSE 8
      [] ins.op = "LdWord" -> IF ins.source = "Immediate" THEN 12 ELSE 8
      [] ins.op = "Ldh" -> IF "C" \in {ins.target, ins.source} THEN 8 ELSE 12
      [] ins.op = "LdFromSp" -> IF ins.target = "Immediate" THEN 20 ELSE 12
      [] ins.op \in {"AddHl", "Inc16", "Dec16"} -> 8
      [] ins.op = "AddSp" -> 16
      [] ins.op = "Arithmetic" ->
           IF ins.source \in {"(HL)", "Immediate"} THEN 8 ELSE 4
      [] ins.op \in {"Inc", "Dec"} -> IF ins.target = "(HL)" THEN 12 ELSE 4
      [] ins.op = "Bit" -> IF ins.source = "(HL)" THEN 12 ELSE 8
      [] ins.op = "Rot" -> IF ins.source = "(HL)" THEN 16 ELSE 8
      [] ins.op = "JR" -> IF taken THEN 12 ELSE 8
      [] ins.op = "JP" ->
           IF ins.source = "HL" THEN 4 ELSE IF taken THEN 16 ELSE 12
      [] ins.op = "Call" -> IF taken THEN 24 ELSE 12
      [] ins.op = "Ret" ->
           IF ins.target = "Always" THEN 16 ELSE IF taken THEN 20 ELSE 8
      [] ins.op = "Push" -> 16
      [] ins.op = "Pop" -> 12

\* C12: the cycle count a step returns is the SM83 T-cycle cost of the
\* instruction it executed on the branch taken; LD r,(HL) and LD (HL),r
\* return 8 and LD (HL),n returns 12.
C12_CanonicalCycleCost ==
    [][ (steps' = steps + 1 /\ status' = "running")
          => cycles' = CanonicalCycles(instr', Taken(cpu, instr')) ]_vars

\* the opcodes the DMG does not define
UndefinedOpcodes == {211, 219, 221, 227, 228, 235, 236, 237, 244, 252, 253}

C14_BootRomOverlay ==
    [][ /\ (call'.op = "write_byte" /\ call'.arg = 65360
            /\ status' = "running")
             => cpu'.bus.boot_rom = NoBootRom
        /\ ~(call'.op = "write_byte" /\ call'.arg = 65360)
             => cpu'.bus.boot_rom = cpu.bus.boot_rom
        /\ cpu.bus.boot_rom = NoBootRom => cpu'.bus.boot_rom = NoBootRom
        /\ (call'.op = "read_byte" /\ call'.arg <= 255) =>
               /\ status' = "running"
               /\ call'.ret = IF cpu.bus.boot_rom = NoBootRom
                              THEN MemGet(cpu.bus.mem, call'.arg)
                              ELSE BootRom[call'.arg] ]_vars

\* C14 witness: after a write of 0xFE to 0xFF50 the read of 0x0000 returned
\* the cartridge byte.
C14_Witness ==
    /\ call.op = "read_byte"
    /\ call.arg = 0
    /\ call.ret = CartRom[0]
    /\ cpu.bus.boot_rom = NoBootRom
    /\ status = "running"

\* C15: whatever writes were made, every ROM address still holds the byte
\* loaded from the cartridge.
C15_RomUnchangedByWrites ==
    \A address \in DOMAIN CartRom :
        MemGet(cpu.bus.mem, address) = CartRom[address]

\* echo addresses at which a byte has been stored or may be read
EchoAddressesInUse ==
    {a \in (DOMAIN cpu.bus.mem) \cup {x + 8192 : x \in DOMAIN cpu.bus.mem}
           \cup BusAddresses : a >= 57344 /\ a <= 65023}

\* C16: in every state, for every echo address a in 0xE000-0xFDFF,
\* read_byte(a) equals read_byte(a - 0x2000).
C16_EchoMirrorsWram ==
    \A a \in EchoAddressesInUse :
        /\ ~ReadByte(cpu.bus, a).panic
        /\ ReadByte(cpu.bus, a).val = ReadByte(cpu.bus, a - 8192).val

\* C16 witness: 0x55 written through 0xC000 reads back through 0xE000 while
\* 0xFE, written through 0xFDFF, reads back through 0xDDFF.
C16_Witness ==
    /\ call.op = "write_byte"
    /\ call.arg = 49152
    /\ call.ret = 85
    /\ ReadByte(cpu.bus, 57344).val = 85
    /\ ReadByte(cpu.bus, 56831).val = 254
    /\ status = "running"

\* C17 (as the code has it): a byte written to 0xDDFF is returned by a read
\* of 0xFDFF, the echo alias of 0xFDFF - 0x2000.
C17_DdffReadsAtFdff ==
    [][ (call'.op = "write_byte" /\ call'.arg = 56831)
          => /\ status' = "running"
             /\ ReadByte(cpu'.bus, 65023).val = call'.ret ]_vars

\* C17 witness: 0x55 was written to 0xDDFF and 0xFDFF reads 0x55, while
\* 0xDFFF holds another byte.
C17_Witness ==
    /\ call.op = "write_byte"
    /\ call.arg = 56831
    /\ call.ret = 85
    /\ ReadByte(cpu.bus, 65023).val = 85
    /\ ReadByte(cpu.bus, 57343).val = 254

\* C17 as stated: a byte written to 0xDFFF is returned by a read of 0xFDFF.
C17_DfffReadsAtFdff ==
    [][ (call'.op = "write_byte" /\ call'.arg = 57343)
          => /\ status' = "running"
             /\ ReadByte(cpu'.bus, 65023).val = call'.ret ]_vars

\* C18: a read_byte of an address in 0xFEA0-0xFEFF returns 0xFF, and a
\* write_byte to one completes (it is ignored).
C18_ProhibitedRangeHarmless ==
    (call.op \in {"read_byte", "write_byte"}
     /\ call.arg >= 65184 /\ call.arg <= 65279) =>
        /\ status = "running"
        /\ call.op = "read_byte" => call.ret = 255

\* C19: a read_byte of an I/O-page address that is no implemented register
\* (0xFF03) returns 0xFF, and a write_byte to it completes.
C19_UnknownIoHarmless ==
    (call.op \in {"read_byte", "write_byte"} /\ call.arg = 65283) =>
        /\ status = "running"
        /\ call.op = "read_byte" => call.ret = 255

\* <<tile, row>> of every tile-data byte that was written or may be, and of
\* every cached row; all other rows are zero in VRAM and in the cache
TileRowsInUse ==
    DOMAIN cpu.bus.gpu.tile_set
    \cup {<<(a - 32768) \div 16, ((a - 32768) % 16) \div 2>> :
            a \in {x \in DOMAIN cpu.bus.mem \cup VramAddresses :
                     x >= 32768 /\ x < 32768 + 6144}}

\* C20: in every state, for every tile t, row r and pixel i, the cached
\* colour get_tile(i) of tile_set[t][r] is 2 * bit (7 - i) of VRAM byte
\* 16t + 2r + 1 plus bit (7 - i) of VRAM byte 16t + 2r, whichever of the two
\* bytes was written last.
C20_TileCacheIsDecodeOfVram ==
    \A tr \in TileRowsInUse : \A i \in 0..7 :
        GetTile(TileSetRow(cpu.bus.gpu.tile_set, tr[1], tr[2]), i)
          = 2 * Bit(MemGet(cpu.bus.mem, 32768 + 16 * tr[1] + 2 * tr[2] + 1),
                    7 - i)
            + Bit(MemGet(cpu.bus.mem, 32768 + 16 * tr[1] + 2 * tr[2]), 7 - i)

\* C20 witness: 0x85 is in byte 0 and 0xFF was written to byte 1 last; pixels
\* 0 and 1 of tile 0, row 0 are 3 and 2.
C20_Witness ==
    /\ call.op = "write_byte"
    /\ call.arg = 32769
    /\ call.ret = 255
    /\ MemGet(cpu.bus.mem, 32768) = 133
    /\ GetTile(TileSetRow(cpu.bus.gpu.tile_set, 0, 0), 0) = 3
    /\ GetTile(TileSetRow(cpu.bus.gpu.tile_set, 0, 0), 1) = 2

\* C21: with no write to DIV, after Timer::step was called with a total of N
\* T-cycles, in any chunking, DIV is floor(N / 256) mod 256, whatever TAC.
C21_DivIsElapsedOver256 ==
    cpu.bus.timer.divider = (cycles \div 256) % 256

\* period of TIMA in T-cycles for a TAC value
TimaPeriod(tac) ==
    CASE tac % 4 = 0 -> 1024
      [] tac % 4 = 1 -> 16
      [] tac % 4 = 2 -> 64
      [] tac % 4 = 3 -> 256

\* TIMA after n increments from tima, each overflow reloading tma
TimaAfter(tima, tma, n) ==
    IF tima + n <= 255 THEN tima + n
    ELSE tma + ((tima + n - 256) % (256 - tma))

\* increments a Timer::step(c) owes in state t
TimaIncrements(t, c) == (t.counter_counter + c) \div TimaPeriod(t.control)

\* C22: with TAC.Enable set, one Timer::step(c) advances TIMA by exactly
\* floor((acc + c) / P) increments, P = 1024, 16, 64, 256 for TAC[1:0] = 0, 1,
\* 2, 3, and carries (acc + c) mod P; with TAC.Enable clear TIMA and the
\* accumulator stay as they are.
C22_TimaAdvancesPerPeriod ==
    [][ call'.op = "Timer::step" =>
          IF Bit(cpu.bus.timer.control, 2) = 1
          THEN /\ cpu.bus.timer.counter_counter
                    < TimaPeriod(cpu.bus.timer.control)
               /\ cpu'.bus.timer.counter =
                    TimaAfter(cpu.bus.timer.counter, cpu.bus.timer.modulo,
                              TimaIncrements(cpu.bus.timer, call'.arg))
               /\ cpu'.bus.timer.counter_counter =
                    (cpu.bus.timer.counter_counter + call'.arg)
                       % TimaPeriod(cpu.bus.timer.control)
          ELSE /\ cpu'.bus.timer.counter = cpu.bus.timer.counter
               /\ cpu'.bus.timer.counter_counter
                    = cpu.bus.timer.counter_counter ]_vars

\* C22 witness: at 16 T-cycles per increment, step(20) took the total from
\* 12 to 32 and crossed two period boundaries in one call: TIMA is 2.
C22_Witness ==
    /\ call.op = "Timer::step"
    /\ call.arg = 20
    /\ cpu.bus.timer.control = 5
    /\ cycles = 32
    /\ cpu.bus.timer.counter = 2
    /\ cpu.bus.timer.counter_counter = 0

\* C23: Timer::step returns true exactly when TIMA was incremented past 0xFF
\* during the call, and TIMA then continues from TMA, not from 0.
C23_OverflowReloadsAndRequests ==
    [][ call'.op = "Timer::step" =>
          /\ call'.ret =
               (/\ Bit(cpu.bus.timer.control, 2) = 1
                /\ cpu.bus.timer.counter
                     + TimaIncrements(cpu.bus.timer, call'.arg) > 255)
          /\ call'.ret =>
               /\ cpu'.bus.timer.counter >= cpu.bus.timer.modulo
               /\ cpu'.bus.timer.counter =
                    cpu.bus.timer.modulo
                    + ((cpu.bus.timer.counter
                        + TimaIncrements(cpu.bus.timer, call'.arg) - 256)
                       % (256 - cpu.bus.timer.modulo)) ]_vars

\* C23 witness: a call returned true and left TIMA at TMA = 0xFE.
C23_Witness ==
    /\ call.op = "Timer::step"
    /\ call.ret = TRUE
    /\ cpu.bus.timer.modulo = 254
    /\ cpu.bus.timer.counter = 254

\* the low nibble a read of the joypad register is to return: bit 1 of the
\* selection (bit 5 of the register) low selects the buttons, bit 0 (bit 4 of
\* the register) low selects the d-pad
JoypadNibble(j) ==
    CASE j.input_select % 4 = 1 -> 15 - j.buttons
      [] j.input_select % 4 = 2 -> 15 - j.dpad
      [] j.input_select % 4 = 0 -> And8(15 - j.buttons, 15 - j.dpad)
      [] j.input_select % 4 = 3 -> 15

\* C24: read_joypad succeeds in every selection state, the power-on one
\* included, and its low nibble is the active-low button nibble, the
\* active-low d-pad nibble, their AND when both groups are selected, and 0xF
\* when neither is.
C24_ReadJoypadEverySelection ==
    (call.op = "read_byte" /\ call.arg = JoypadRegister) =>
        /\ status = "running"
        /\ call.ret % 16 = JoypadNibble(cpu.bus.joypad)

\* C25: a read that follows write_joypad(b) returns bits 7-6 as 1 and bits
\* 5-4 as in b, whatever the other bits of b; the write leaves the stored
\* buttons and directions as they were.
C25_OnlySelectBitsLatched ==
    [][ /\ (call.op = "write_byte" /\ call'.op = "read_byte") =>
              /\ status' = "running"
              /\ call'.ret \div 64 = 3
              /\ (call'.ret \div 16) % 4 = (call.ret \div 16) % 4
        /\ call'.op = "write_byte" =>
              /\ cpu'.bus.joypad.buttons = cpu.bus.joypad.buttons
              /\ cpu'.bus.joypad.dpad = cpu.bus.joypad.dpad ]_vars

\* C26: a step that executes LD A,(BC) completes from any state: A becomes
\* the byte at address BC, PC advances by 1, 8 cycles are returned, and the
\* other registers, the flags, SP, IME and all memory stay as they were.
C26_LdABcFrame ==
    [][ (instr'.op = "LdIndirect" /\ instr'.target = "BC"
         /\ instr'.source = "IntoA") =>
          /\ status' = "running"
          /\ cpu'.registers =
               [cpu.registers EXCEPT
                  !.a = ReadByte(cpu.bus, bc(cpu.registers)).val]
          /\ cpu'.pc = Wrap16(cpu.pc + 1)
          /\ cycles' = 8
          /\ cpu'.sp = cpu.sp
          /\ cpu'.interrupts_enabled = cpu.interrupts_enabled
          /\ [cpu'.bus EXCEPT !.gpu = cpu.bus.gpu] = cpu.bus ]_vars

\* C26 on the addresses read_byte serves: the same effect whenever the read
\* of address BC does not panic.
C26_LdABcFrameWhereReadable ==
    [][ (instr'.op = "LdIndirect" /\ instr'.target = "BC"
         /\ instr'.source = "IntoA"
         /\ ~ReadByte(cpu.bus, bc(cpu.registers)).panic) =>
          /\ status' = "running"
          /\ cpu'.registers =
               [cpu.registers EXCEPT
                  !.a = ReadByte(cpu.bus, bc(cpu.registers)).val]
          /\ cpu'.pc = Wrap16(cpu.pc + 1)
          /\ cycles' = 8
          /\ cpu'.sp = cpu.sp
          /\ cpu'.interrupts_enabled = cpu.interrupts_enabled
          /\ [cpu'.bus EXCEPT !.gpu = cpu.bus.gpu] = cpu.bus ]_vars

\* the operand byte e8 as the signed offset it encodes
SignExtended(e8) == IF e8 >= 128 THEN e8 - 256 ELSE e8

\* the F byte with Z = 0, N = 0, H = h, C = c
FlagsHC(h, c) == (IF h THEN 32 ELSE 0) + (IF c THEN 16 ELSE 0)

\* C28: for every SP and every e8, ADD SP,e8 leaves in SP, and LD HL,SP+e8
\* leaves in HL, the sum SP + sign-extended e8 modulo 2^16, with Z = 0, N = 0,
\* H set iff (SP & 0xF) + (e8 & 0xF) > 0xF and C set iff (SP & 0xFF) + e8 (as
\* an unsigned byte) > 0xFF.
C28_SpOffsetSumAndFlags ==
    [][ (\/ instr'.op = "AddSp"
         \/ instr'.op = "LdFromSp" /\ instr'.target = "HL") =>
          /\ status' = "running"
          /\ (IF instr'.op = "AddSp" THEN cpu'.sp ELSE hl(cpu'.registers))
               = (cpu.sp + SignExtended(instr'.n) + 65536) % 65536
          /\ cpu'.registers.f =
               FlagsHC((cpu.sp % 16) + (instr'.n % 16) > 15,
                       (cpu.sp % 256) + instr'.n > 255)
          /\ instr'.op = "LdFromSp" => cpu'.sp = cpu.sp ]_vars

\* C28 witness: ADD SP,-1 from SP = 0x0001 left SP = 0x0000 with Z = 0,
\* N = 0, H = 1, C = 1.
C28_Witness ==
    /\ instr.op = "AddSp"
    /\ instr.n = 255
    /\ call.ret = 1
    /\ steps = 1
    /\ status = "running"
    /\ cpu.sp = 0
    /\ cpu.registers.f = 48

\* A after DAA, from A and the flags n, h, c
DaaResult(a, n, h, c) ==
    IF ~n
    THEN (a + (IF h \/ a % 16 > 9 THEN 6 ELSE 0)
            + (IF c \/ a > 153 THEN 96 ELSE 0)) % 256
    ELSE (a - (IF h THEN 6 ELSE 0) - (IF c THEN 96 ELSE 0) + 512) % 256

FlagsZC(z, c) == (IF z THEN 128 ELSE 0) + (IF c THEN 16 ELSE 0)

\* the operand of a rotate instruction in CPU state c: A for RLA / RRA
RotOperand(c, ins) ==
    IF ins.op = "Rot" THEN MatchRegister(c, ins.source).val
    ELSE c.registers.a

\* C30: for every operand r and carry-in c, RL gives (r << 1 | c) mod 256 and
\* RR gives r >> 1 | c << 7, written back to the operand, with N = 0, H = 0,
\* C = the bit shifted out and Z = (result = 0); RLA and RRA do the same on A
\* with Z = 0.
C30_RotateThroughCarry ==
    [][ (\/ instr'.op \in {"Rla", "Rra"}
         \/ instr'.op = "Rot" /\ instr'.target \in {"Rl", "Rr"}) =>
          /\ status' = "running"
          /\ RotOperand(cpu', instr') =
               IF instr'.op = "Rla" \/ instr'.target = "Rl"
               THEN (2 * RotOperand(cpu, instr')
                       + Bit(cpu.registers.f, 4)) % 256
               ELSE (RotOperand(cpu, instr') \div 2)
                       + 128 * Bit(cpu.registers.f, 4)
          /\ cpu'.registers.f =
               FlagsZC(instr'.op = "Rot" /\ RotOperand(cpu', instr') = 0,
                       IF instr'.op = "Rla" \/ instr'.target = "Rl"
                       THEN RotOperand(cpu, instr') >= 128
                       ELSE RotOperand(cpu, instr') % 2 = 1) ]_vars

\* C30 witness: RL C with C = 0x80 and carry 0 left C = 0x00 with Z = 1,
\* N = 0, H = 0, carry = 1.
C30_Witness ==
    /\ instr.op = "Rot"
    /\ instr.target = "Rl"
    /\ instr.source = "C"
    /\ call.arg = 128
    /\ steps = 1
    /\ status = "running"
    /\ cpu.registers.c = 0
    /\ cpu.registers.f = 144

\* C27: in every interleaving of the two threads, the frame last blitted is
\* cell for cell the content of one copy made by the emulation thread (or the
\* initial zeros), and a thread is inside copy_from_slice or clone only while
\* it holds the lock.
C27_BlitIsOneCopy ==
    /\ \A i, j \in 1..FrameCells : threads.blitted[i] = threads.blitted[j]
    /\ threads.emu_pc = "copy" => threads.lock = "emu"
    /\ threads.gui_pc = "clone" => threads.lock = "gui"

\* C27 witness: the second copy was blitted whole while the emulation thread
\* is in the middle of its third copy.
C27_Witness ==
    /\ threads.blits = 1
    /\ threads.blitted = [i \in 1..FrameCells |-> 2]
    /\ threads.emu_pc = "copy"
    /\ threads.emu_i = 2
    /\ threads.shared[1] = 3
    /\ threads.gui_pc = "lock"

\* a stack byte in RAM: video RAM, external RAM, work RAM and its echo, OAM
\* (0x8000-0xFE9F) or HRAM (0xFF80-0xFFFE)
InRam(address) ==
    (address >= 32768 /\ address <= 65183)
    \/ (address >= 65408 /\ address <= 65534)

\* the register pair POP wrote
PoppedPair ==
    CASE instr.target = "BC" -> bc(cpu.registers)
      [] instr.target = "DE" -> de(cpu.registers)
      [] instr.target = "HL" -> hl(cpu.registers)
      [] OTHER -> af(cpu.registers)

\* C31: PUSH of v from stack pointer S, with S-1 and S-2 in RAM, leaves v's
\* high byte at S-1, its low byte at S-2 and SP = S-2, and Cpu::pop then
\* returns v with SP = S; the POP that follows leaves v in its register pair
\* (for POP AF when the low byte of v is one F can hold) and SP = S.
C31_PushThenPop ==
    (/\ call.op = "input"
     /\ InRam(Wrap16(call.ret + 65535))
     /\ InRam(Wrap16(call.ret + 65534)))
    => /\ steps = 1 =>
            /\ status = "running"
            /\ instr.op = "Push"
            /\ cpu.sp = Wrap16(call.ret + 65534)
            /\ ReadByte(cpu.bus, Wrap16(call.ret + 65535)) =
                 [val |-> call.arg \div 256, panic |-> FALSE]
            /\ ReadByte(cpu.bus, Wrap16(call.ret + 65534)) =
                 [val |-> call.arg % 256, panic |-> FALSE]
            /\ ~Pop(cpu).panic
            /\ Pop(cpu).val = call.arg
            /\ Pop(cpu).cpu.sp = call.ret
       /\ (steps = 2
           /\ (instr.target = "AF" => (call.arg % 256) \in FlagBytes)) =>
            /\ status = "running"
            /\ instr.op = "Pop"
            /\ cpu.sp = call.ret
            /\ PoppedPair = call.arg

\* PUSH DE of 0xABF0 from SP = 0xE000 followed by POP HL
C31_Witness ==
    /\ steps = 2
    /\ status = "running"
    /\ call = [op |-> "input", arg |-> 44016, ret |-> 57344]
    /\ instr.op = "Pop"
    /\ instr.target = "HL"
    /\ hl(cpu.registers) = 44016
    /\ MemGet(cpu.bus.mem, 57343) = 171
    /\ MemGet(cpu.bus.mem, 57342) = 240

\* the row of the framebuffer render_line has just written
RenderedRow == BufferRow(cpu.bus.gpu.buffer, cpu.bus.gpu.rendered)

\* the byte of the background tile map at (row, column) of its 32 x 32 entries
MapEntry(row, column) ==
    MemGet(cpu.bus.mem,
           BgTilemapAddress(cpu.bus.gpu.lcd_control) + 32 * row + column)

\* colour index of pixel x of the rendered row, taken from tile-cache entry
\* tile at the map position the sentence names
PixelOfTile(tile, x) ==
    GetTile(TileSetRow(cpu.bus.gpu.tile_set, tile,
                       (cpu.bus.gpu.scroll_y + cpu.bus.gpu.rendered) % 8),
            (cpu.bus.gpu.scroll_x + x) % 8)

\* the map entry for pixel x, the column wrapping inside the map row
WrappedEntry(x) ==
    MapEntry(((cpu.bus.gpu.scroll_y + cpu.bus.gpu.rendered) \div 8) % 32,
             ((cpu.bus.gpu.scroll_x + x) \div 8) % 32)

\* C32: after a scanline is rendered, every pixel x in 0..159 of row LY comes
\* from the map entry at row ((SCY + LY) / 8) mod 32 and column
\* ((SCX + x) / 8) mod 32, tile row (SCY + LY) mod 8, pixel column
\* (SCX + x) mod 8, and all 160 pixels are written.
C32_ScanlineFromBackgroundMap ==
    cpu.bus.gpu.rendered # NoLine =>
      \A x \in 0..(WIDTH - 1) :
         RenderedRow[x] =
           LookupColour(cpu.bus.gpu.background_colours,
                        PixelOfTile(WrappedEntry(x), x))

\* C32, the part the code keeps: the same for the pixels whose map column
\* (SCX + x) / 8 is below 32.
C32_ScanlineWithoutColumnWrap ==
    cpu.bus.gpu.rendered # NoLine =>
      \A x \in 0..(WIDTH - 1) :
         (cpu.bus.gpu.scroll_x + x) \div 8 < 32 =>
           RenderedRow[x] =
             LookupColour(cpu.bus.gpu.background_colours,
                          PixelOfTile(WrappedEntry(x), x))

\* the tile-cache entry a tile-map byte n selects: n with tile data at
\* 0x8000, the signed offset from 0x9000 (entry 256 + n below 128) at 0x8800
SelectedTile(lcd_control, n) ==
    IF Bit(lcd_control, 4) = 1 \/ n >= 128 THEN n ELSE 256 + n

\* C33: a rendered pixel comes from tile-cache entry n of its tile-map byte n
\* when LCDC.TileDataSelect is set, and from entry 256 + n (n < 128) or n
\* (n >= 128) when it is clear.
C33_TileDataSelect ==
    cpu.bus.gpu.rendered # NoLine =>
      \A x \in 0..(WIDTH - 1) :
         (cpu.bus.gpu.scroll_x + x) \div 8 < 32 =>
           RenderedRow[x] =
             LookupColour(cpu.bus.gpu.background_colours,
                          PixelOfTile(SelectedTile(cpu.bus.gpu.lcd_control,
                                                   WrappedEntry(x)), x))

\* C33, the part the code keeps: with TileDataSelect set the pixel comes
\* from entry n.
C33_TileDataAt8000 ==
    (cpu.bus.gpu.rendered # NoLine /\ Bit(cpu.bus.gpu.lcd_control, 4) = 1) =>
      \A x \in 0..(WIDTH - 1) :
         (cpu.bus.gpu.scroll_x + x) \div 8 < 32 =>
           RenderedRow[x] =
             LookupColour(cpu.bus.gpu.background_colours,
                          PixelOfTile(WrappedEntry(x), x))

\* RGB of shade s
ShadeRgb(s) ==
    CASE s = 0 -> <<255, 255, 255>>
      [] s = 1 -> <<170, 170, 170>>
      [] s = 2 -> <<85, 85, 85>>
      [] s = 3 -> <<0, 0, 0>>

\* C34: a rendered pixel of colour index c is written as the RGB of shade
\* (BGP >> 2c) & 3, BGP being the byte last written to 0xFF47.
C34_PaletteShade ==
    cpu.bus.gpu.rendered # NoLine =>
      \A x \in 0..(WIDTH - 1) :
         (cpu.bus.gpu.scroll_x + x) \div 8 < 32 =>
           RenderedRow[x] =
             ShadeRgb((cpu.bus.gpu.background_colours
                         \div Pow2(2 * PixelOfTile(WrappedEntry(x), x))) % 4)

\* C34, the part the code keeps: every pixel written is one of the four
\* greys, and palette entries 00 and 11 are written as white and black.
C34_GreysAndEqualBitEntries ==
    cpu.bus.gpu.rendered # NoLine =>
      \A x \in 0..(WIDTH - 1) :
         (cpu.bus.gpu.scroll_x + x) \div 8 < 32 =>
           /\ RenderedRow[x] \in {ShadeRgb(s) : s \in 0..3}
           /\ (cpu.bus.gpu.background_colours
                 \div Pow2(2 * PixelOfTile(WrappedEntry(x), x))) % 4
                \in {0, 3} =>
                RenderedRow[x] =
                  ShadeRgb((cpu.bus.gpu.background_colours
                              \div Pow2(2 * PixelOfTile(WrappedEntry(x), x)))
                           % 4)

\* C35: if LCDC.LCDEnable stays set from some step on and the CPU keeps
\* being stepped, a read of 0xFF44 gives 0x90 again and again and LY takes
\* every value of 0..153 again and again; a Gpu::step run with LCDEnable
\* clear leaves LY alone.
C35_LyKeepsCycling ==
    /\ <>[]DisplayEnabled(cpu.bus.gpu.lcd_control) =>
         /\ []<>(ReadByte(cpu.bus, 65348) = [val |-> 144, panic |-> FALSE])
         /\ \A n \in 0..153 : []<>(cpu.bus.gpu.line = n)
    /\ [][~DisplayEnabled(cpu'.bus.gpu.lcd_control) =>
            cpu'.bus.gpu.line = cpu.bus.gpu.line]_vars

\* LY = 0x90 is read at 0xFF44 with the display on, 12 cycles into VBlank
C35_Witness ==
    /\ DisplayEnabled(cpu.bus.gpu.lcd_control)
    /\ ReadByte(cpu.bus, 65348).val = 144
    /\ cpu.bus.gpu.mode = "VBlank"
    /\ cpu.bus.gpu.cycles = 12

HEIGHT == 144

\* C36: LY is always in 0..153, the mode is VBlank exactly when LY >= 144,
\* and render_line only ever runs for a row LY < 144 of the framebuffer.
C36_LyRangeAndVBlank ==
    /\ cpu.bus.gpu.line \in 0..153
    /\ cpu.bus.gpu.mode = "VBlank" <=> cpu.bus.gpu.line >= HEIGHT
    /\ cpu.bus.gpu.rendered # NoLine =>
         /\ cpu.bus.gpu.rendered = cpu.bus.gpu.line
         /\ cpu.bus.gpu.rendered \in 0..(HEIGHT - 1)

\* the last row of a frame, 143, has just been rendered
C36_Witness ==
    /\ cpu.bus.gpu.rendered = 143
    /\ cpu.bus.gpu.mode = "HBlank"
    /\ cpu.bus.gpu.line = 143

\* C37: an iteration of the loop whose cpu.step() took the GPU from Drawing
\* to HBlank (render_line ran) makes one copy of the GPU framebuffer into the
\* shared buffer before the next step, and an iteration without that
\* transition makes none (an iteration whose step panics ends the loop).
C37_CopyOnEveryHBlankEdge ==
    [][ status' = "running" =>
          /\ cpu'.bus.gpu.rendered # NoLine <=>
               (cpu.bus.gpu.mode = "Drawing" /\ cpu'.bus.gpu.mode = "HBlank")
          /\ cpu'.bus.gpu.rendered # NoLine =>
               /\ threads'.copies = threads.copies + 1
               /\ threads'.shared = cpu'.bus.gpu.buffer
          /\ cpu'.bus.gpu.rendered = NoLine =>
               /\ threads'.copies = threads.copies
               /\ threads'.shared = threads.shared ]_vars

\* the third scanline (row 3) has been rendered and copied: three copies,
\* one per rendered row
C37_Witness ==
    /\ threads.copies = 3
    /\ cpu.bus.gpu.rendered = 3
    /\ DOMAIN threads.shared = {1, 2, 3}
    /\ threads.last_mode = "HBlank"

\* C38: every cycle count a Cpu::step returns is in 4..24, and every burst
\* of the emulation loop (while cycles_elapsed < target_cycles) comes to an
\* end.
C38_PositiveCyclesEndTheBurst ==
    /\ [](call.op = "Cpu::step" => call.ret \in 4..24)
    /\ [](\A outcome \in StepOutcomes :
             ~outcome.panic => outcome.cycles \in 4..24)
    /\ (status = "running") ~> (status # "running")

\* the burst with the largest overshoot has ended: a 24-cycle step taken
\* one cycle short of target_cycles
C38_Witness ==
    /\ status = "sleeping"
    /\ cycles = target_cycles + 23
    /\ call = [op |-> "Cpu::step", arg |-> 0, ret |-> 24]

\* an instruction the decoder has no case for (its nyi arm), or one execute
\* has no arm for (the fallthrough of the Rot arm and the final fallthrough)
LacksCase(ins) ==
    \/ ins.op = "Nyi"
    \/ ins.op = "Rot" /\ ins.target \notin {"Rl", "Rr", "Sra", "Srl"}
    \/ ins.op \notin {"Nyi", "NonExistent", "Nop", "Di", "Ei", "LdIndirect",
                      "LdByte", "LdWord", "Ldh", "LdFromSp", "AddHl", "AddSp",
                      "Arithmetic", "Bit", "JR", "JP", "Inc", "Dec", "Inc16",
                      "Dec16", "Call", "Ret", "Push", "Pop", "Rot", "Rla",
                      "Rra", "Daa"}

\* C39: no step that fetches an opcode of the DMG table ends in a panic for
\* lack of a decoder or executor case.
C39_EveryDefinedOpcodeHasACase ==
    [][ (steps' = steps + 1
         /\ ReadByte(cpu.bus, cpu.pc).val \notin UndefinedOpcodes) =>
          ~(status' = "panicked" /\ LacksCase(instr')) ]_vars

\* C39, what the code does instead: a step whose instruction lacks a case
\* panics and changes nothing.
C39_MissingCasesPanic ==
    [][ (steps' = steps + 1 /\ LacksCase(instr')) =>
          (status' = "panicked" /\ cpu' = cpu /\ cycles' = cycles) ]_vars

\* C40: write_byte(0xFF0F, v) and write_byte(0xFFFF, v) complete for every
\* byte v and store v's low five bits as the pending set (IF) or the enable
\* mask (IE), ignoring bits 5-7.
C40_InterruptRegistersTakeAnyByte ==
    [][ steps' = steps + 1 =>
          /\ status' = "running"
          /\ call'.arg = 65295 =>
               /\ cpu'.bus.interrupt_flag = call'.ret % 32
               /\ cpu'.bus.interrupt_enabled = cpu.bus.interrupt_enabled
          /\ call'.arg = 65535 =>
               /\ cpu'.bus.interrupt_enabled = call'.ret % 32
               /\ cpu'.bus.interrupt_flag = cpu.bus.interrupt_flag ]_vars

\* C40, the part the code keeps: a byte with bits 5-7 clear is stored as the
\* pending set or the enable mask and reads back; a byte with any of bits
\* 5-7 set ends the write in a panic with neither register changed.
C40_FiveBitBytesStored ==
    [][ steps' = steps + 1 =>
          IF call'.ret < 32
          THEN /\ status' = "running"
               /\ ReadByte(cpu'.bus, call'.arg) =
                    [val |-> call'.ret, panic |-> FALSE]
               /\ call'.arg = 65295 =>
                    cpu'.bus.interrupt_enabled = cpu.bus.interrupt_enabled
               /\ call'.arg = 65535 =>
                    cpu'.bus.interrupt_flag = cpu.bus.interrupt_flag
          ELSE status' = "panicked" /\ cpu' = cpu ]_vars

====
